---- MODULE Spec2Model ----
(***************************************************************************)
(* Model of the paper discovery pipeline of swarm-it-discovery:            *)
(*   - scanner/sources.py   fetch_all_sources (fan-out, merge, dedup)      *)
(*   - run.py               CertifiedPipeline (certify, run)               *)
(*   - run_adk.py           AnalystAgent.certify, run_pipeline             *)
(*   - analyzer/matcher.py, analyzer/rsct_scorer.py, publisher/*.py        *)
(* The pipeline compares scores as exact integers in percent (50 stands   *)
(* for 0.5); the analyzer's own arithmetic is also computed in binary64.   *)
(***************************************************************************)
EXTENDS Integers, Sequences, FiniteSets, TLC

VARIABLES
    fpc,        \* fetch_all_sources: position of the coroutine
    task,       \* fetch_all_sources: one fetch_recent task per registered adapter
    results,    \* fetch_all_sources: what asyncio.gather returned
    merged,     \* fetch_all_sources: `papers` after the merge loop
    unique,     \* fetch_all_sources: the list returned
    overtaken,  \* history: some task finished before one registered earlier
    pc,         \* CertifiedPipeline.run: position of the coroutine
    config,     \* CertifiedPipeline(topics_dir=..., min_score=...): the directory is
                \* "missing" or "present", the threshold is in percent
    collab,     \* the certification collaborator: "absent", "unreachable", "up"
    swarmit,    \* CertifiedPipeline.swarmit: "none" or "client"
    dry_run,    \* run(dry_run=...)
    generate_pdfs, \* run(generate_pdfs=...)
    matcher,    \* SimilarityMatcher: embed_mode, topics, topic_embeddings
    scorer,     \* RSCTScorer: openai client, whitepaper_embedding
    papers,     \* run: `papers`
    matches,    \* run: `matches`
    relevant,   \* run: `relevant`, a list of (paper, match) pairs
    cert,       \* run: `cert`, the last certification result
    rsct_scores, \* run: `rsct_scores`
    ranked,     \* run: `relevant_with_rsct`
    paper_data, \* run: `paper_data`, the list handed to the blog generator
    summary,    \* run: `results`, the summary it returns
    trace,      \* history: the stages entered, in order
    certlog,    \* history: every certify call, how it went and what it returned
    exc,        \* the exception run() ended with, "" if none
    adk,        \* run_adk.run_pipeline on the inputs of the finished run: <<>> until
                \* it has run, then its results and the papers its writer went through
    apc,        \* the analyzer on its own: which call comes next
    acase,      \* the analyzer on its own: the objects and arguments of the calls
    amatch,     \* what match_paper returned
    ascore,     \* what score_paper returned
    aranked,    \* what rank_papers returned
    atop,       \* run's relevant_with_rsct and the two slices it iterates
    arelevant,  \* what filter_relevant returned
    acos        \* what the two _cosine_similarity functions returned

fvars == <<fpc, task, results, merged, unique, overtaken>>

rvars == <<pc, config, collab, swarmit, dry_run, generate_pdfs, matcher, scorer, papers,
           matches, relevant, cert, rsct_scores, ranked, paper_data, summary, trace,
           certlog, exc, adk>>

avars == <<apc, acase, amatch, ascore, aranked, atop, arelevant, acos>>

vars == <<fvars, rvars, avars>>

(***************************************************************************)
(* Bounds of the model.                                                    *)
(***************************************************************************)
\* Total number of papers the six providers hand back in one fetch.
MaxPapers == 2

(***************************************************************************)
(* Strings are sequences of characters, so that lower() and slicing are    *)
(* computed and not assumed.                                               *)
(***************************************************************************)
Min(a, b) == IF a <= b THEN a ELSE b

Rep(n, c) == [i \in 1..n |-> c]

\* str.lower() on one character of the model's alphabet
LowerChar(c) ==
    CASE c = "A" -> "a"
      [] c = "B" -> "b"
      [] OTHER -> c

LowerStr(s) == [i \in 1..Len(s) |-> LowerChar(s[i])]

\* the slice s[:n]
Prefix(s, n) == SubSeq(s, 1, Min(n, Len(s)))

\* sources.py:434  the length of the title prefix used as deduplication key
KeyLen == 50

\* a mutant of TitleKey: the key is the raw title prefix, not lowercased
TitleKeyNoLower(title) == Prefix(title, KeyLen)

\* sources.py:434  title_key = p.title.lower()[:50]
TitleKey(title) == Prefix(LowerStr(title), KeyLen)

(***************************************************************************)
(* Inputs: the titles the providers may return.  TitleLongX and TitleLongY *)
(* differ in case and after the 50th character only, so they share a key;  *)
(* TitleShort has a key of its own.                                        *)
(***************************************************************************)
TitleLongX == Rep(KeyLen, "a") \o <<"x">>
TitleLongY == Rep(KeyLen, "A") \o <<"y">>
TitleShort == <<"B">>

Titles == {TitleLongX, TitleLongY, TitleShort}

\* Abstracts are sequences of words.
AbsCore == <<"Representation", "solver", "compatibility", "kappa", "certification">>
AbsSafety == <<"safety", "alignment">>
AbsTopic == <<"representations", "solver", "compatibility", "multi-agent">>

\* a record without abstract text: arXiv's <summary> holds white space only,
\* which strip() empties; bioRxiv's item has no "abstract" key
AbsEmpty == <<>>

\* the text of the specification's example: the first three keywords only
AbsThree == <<"representation", "solver", "compatibility">>

\* a text with every keyword of the matcher's table
AbsRich == <<"representation", "solver", "compatibility", "kappa",
             "certification", "multi-agent", "hallucination", "grounding",
             "safety", "alignment">>

\* a text off the subject: no keyword, and embeddings that point away from
\* the topic's and the whitepaper's
AbsOff == <<"sourdough">>

\* the records the providers may return: a title and an abstract
Items == {
    [title |-> TitleLongX, abstract |-> AbsCore],
    [title |-> TitleLongY, abstract |-> AbsEmpty],
    [title |-> TitleShort, abstract |-> AbsTopic] }

\* sources.py:409-416  the adapters, in registration order
Sources == <<"arxiv", "semantic_scholar", "openalex", "biorxiv", "medrxiv", "pubmed">>

SourceIdx == 1..Len(Sources)

\* sources.py:13-24  a Paper. `n` is its position in the provider's response
\* (the native id inside the namespaced id "<source>:<native-id>").
MkPaper(i, n, item) ==
    [source |-> Sources[i], n |-> n, title |-> item.title, abstract |-> item.abstract]

\* Paper.id, "<source>:<native-id>"
PaperId(p) == <<p.source, p.n>>

\* sources.py:142, 222, 365  the adapters that skip a record without
\* abstract: Semantic Scholar, OpenAlex and PubMed.  ArxivSource (84-94) and
\* BioRxivSource (277-287), which MedRxivSource inherits, build the Paper
\* whatever the abstract is.
DropsEmptyAbstract == {2, 3, 6}

\* the Papers adapter i builds from a list of provider records, in response
\* order
Response(i, items) ==
    LET F[k \in 0..Len(items)] ==
            IF k = 0 THEN <<>>
            ELSE IF i \in DropsEmptyAbstract /\ items[k].abstract = AbsEmpty
                 THEN F[k - 1]
                 ELSE Append(F[k - 1], MkPaper(i, k, items[k]))
    IN F[Len(items)]

SeqsUpTo(S, n) == UNION {[1..k -> S] : k \in 0..n}

Pending == [kind |-> "pending", papers |-> <<>>]
Raised == [kind |-> "raised", papers |-> <<>>]
Returned(ps) == [kind |-> "returned", papers |-> ps]

RECURSIVE SumLen(_, _)
SumLen(t, i) == IF i = 0 THEN 0 ELSE Len(t[i].papers) + SumLen(t, i - 1)

\* papers handed back so far by all providers
Fetched(t) == SumLen(t, Len(Sources))

(***************************************************************************)
(* fetch_all_sources                                                       *)
(***************************************************************************)
\* sources.py:420  return_exceptions=True
ReturnExceptions == TRUE

\* a mutant of GatherPropagates: gather without return_exceptions
GatherPropagatesAlways(t) == \E i \in SourceIdx : t[i].kind = "raised"

\* sources.py:418-421  does the await of asyncio.gather raise?
GatherPropagates(t) ==
    ~ReturnExceptions /\ \E i \in SourceIdx : t[i].kind = "raised"

\* a mutant of GatherReady: the await returns as soon as one task is done
GatherReadyFirstCompleted(t) == \E i \in SourceIdx : t[i].kind # "pending"

\* sources.py:418-421  asyncio.gather resumes the coordinator once every
\* awaitable has returned or raised
GatherReady(t) == \A i \in SourceIdx : t[i].kind # "pending"

\* sources.py:418-421  gather's result list: one entry per awaitable, in
\* the order the awaitables were passed (registration order)
GatherResults(t) == [i \in SourceIdx |-> t[i]]

\* a mutant of MergeResults: the merge stops at the first failed source
RECURSIVE MergeUntilError(_)
MergeUntilError(rs) ==
    IF rs = <<>> \/ Head(rs).kind = "raised" THEN <<>>
    ELSE Head(rs).papers \o MergeUntilError(Tail(rs))

\* sources.py:423-428  the merge loop: an exception is logged, a list is
\* appended
RECURSIVE MergeResults(_)
MergeResults(rs) ==
    IF rs = <<>> THEN <<>>
    ELSE IF Head(rs).kind = "raised" THEN MergeResults(Tail(rs))
    ELSE Head(rs).papers \o MergeResults(Tail(rs))

\* a mutant of DedupLoop: a later paper replaces the one kept for its key
RECURSIVE DedupKeepLast(_, _, _)
DedupKeepLast(ps, seen, out) ==
    IF ps = <<>> THEN out
    ELSE LET p == Head(ps)
             key == TitleKey(p.title)
         IN IF key \in seen
            THEN DedupKeepLast(Tail(ps), seen,
                     [k \in 1..Len(out) |->
                         IF TitleKey(out[k].title) = key THEN p ELSE out[k]])
            ELSE DedupKeepLast(Tail(ps), seen \cup {key}, Append(out, p))

\* sources.py:430-437  the deduplication loop over `papers`, with its
\* seen_titles set and its `unique` list
RECURSIVE DedupLoop(_, _, _)
DedupLoop(ps, seen, out) ==
    IF ps = <<>> THEN out
    ELSE LET p == Head(ps)
             key == TitleKey(p.title)
         IN IF key \in seen
            THEN DedupLoop(Tail(ps), seen, out)
            ELSE DedupLoop(Tail(ps), seen \cup {key}, Append(out, p))

\* sources.py:430-439
Deduplicate(ps) == DedupLoop(ps, {}, <<>>)

\* sources.py:405-439  the value fetch_all_sources returns for the given
\* task outcomes
FetchAllSources(t) == Deduplicate(MergeResults(GatherResults(t)))

\* task i finishes while a task registered before it is still running
Overtakes(t, i) == \E j \in SourceIdx : j < i /\ t[j].kind = "pending"

FetchInit ==
    /\ fpc = "start"
    /\ task = [i \in SourceIdx |-> Pending]
    /\ results = <<>>
    /\ merged = <<>>
    /\ unique = <<>>
    /\ overtaken = FALSE

\* sources.py:409-419  the adapters are built and their coroutines handed
\* to gather; the coordinator suspends
Launch ==
    /\ fpc = "start"
    /\ fpc' = "awaiting"
    /\ UNCHANGED <<task, results, merged, unique, overtaken, rvars, avars>>

\* sources.py:419  fetch_recent of adapter i returns a list of papers
TaskReturns(i) ==
    /\ fpc = "awaiting"
    /\ task[i].kind = "pending"
    /\ \E items \in SeqsUpTo(Items, MaxPapers - Fetched(task)) :
          task' = [task EXCEPT ![i] = Returned(Response(i, items))]
    /\ overtaken' = (overtaken \/ Overtakes(task, i))
    /\ UNCHANGED <<fpc, results, merged, unique, rvars, avars>>

\* sources.py:419  fetch_recent of adapter i raises
TaskRaises(i) ==
    /\ fpc = "awaiting"
    /\ task[i].kind = "pending"
    /\ task' = [task EXCEPT ![i] = Raised]
    /\ overtaken' = (overtaken \/ Overtakes(task, i))
    /\ UNCHANGED <<fpc, results, merged, unique, rvars, avars>>

\* sources.py:418-421  the await of gather completes
Gather ==
    /\ fpc = "awaiting"
    /\ GatherReady(task)
    /\ IF GatherPropagates(task)
       THEN fpc' = "raised" /\ UNCHANGED results
       ELSE fpc' = "merging" /\ results' = GatherResults(task)
    /\ UNCHANGED <<task, merged, unique, overtaken, rvars, avars>>

\* sources.py:423-439  merge, deduplicate, return
MergeAndDedup ==
    /\ fpc = "merging"
    /\ merged' = MergeResults(results)
    /\ unique' = Deduplicate(merged')
    /\ fpc' = "done"
    /\ UNCHANGED <<task, results, overtaken, rvars, avars>>

FetchNext ==
    \/ Launch
    \/ \E i \in SourceIdx : TaskReturns(i)
    \/ \E i \in SourceIdx : TaskRaises(i)
    \/ Gather
    \/ MergeAndDedup


(***************************************************************************)
(* Generic list helpers (Python list semantics).                           *)
(***************************************************************************)
\* insert x into the descending list s, after every element with a key >= its
\* own (list.sort is stable, also with reverse=True)
InsertDesc(x, s, Key(_)) ==
    LET c == Cardinality({k \in 1..Len(s) : Key(s[k]) >= Key(x)})
    IN SubSeq(s, 1, c) \o <<x>> \o SubSeq(s, c + 1, Len(s))

\* list.sort(key=Key, reverse=True)
SortDesc(s, Key(_)) ==
    LET F[i \in 0..Len(s)] ==
            IF i = 0 THEN <<>> ELSE InsertDesc(s[i], F[i - 1], Key)
    IN F[Len(s)]

\* zip(a, b)
Zip(a, b) == [k \in 1..Min(Len(a), Len(b)) |-> <<a[k], b[k]>>]

\* [x for x in s if Keep(x)]
Filter(s, Keep(_)) ==
    LET F[i \in 0..Len(s)] ==
            IF i = 0 THEN <<>>
            ELSE IF Keep(s[i]) THEN Append(F[i - 1], s[i]) ELSE F[i - 1]
    IN F[Len(s)]

\* sum(Val(x) for x in s)
Sum(s, Val(_)) ==
    LET F[i \in 0..Len(s)] == IF i = 0 THEN 0 ELSE F[i - 1] + Val(s[i])
    IN F[Len(s)]

(***************************************************************************)
(* Python's float: IEEE 754 binary64 on non-negative numbers, every        *)
(* operation rounded to nearest, ties to even, on 53 bits.  A natural      *)
(* number is a sequence of limbs in base 2^15, lowest limb first, without  *)
(* leading zero limbs; a double is [m, e] of value m * 2^e with            *)
(* 2^52 <= m < 2^53, and [m |-> <<>>, e |-> 0] for 0.0.                     *)
(***************************************************************************)
MantissaBits == 53
LimbBits == 15
Base == 2^LimbBits

Limb(a, i) == IF i >= 1 /\ i <= Len(a) THEN a[i] ELSE 0

LNorm(a) ==
    LET top == {i \in 1..Len(a) : a[i] # 0}
    IN IF top = {} THEN <<>>
       ELSE SubSeq(a, 1, CHOOSE i \in top : \A j \in top : j <= i)

LAdd(a, b) ==
    LET n == (IF Len(a) >= Len(b) THEN Len(a) ELSE Len(b)) + 1
        s == [i \in 1..n |-> Limb(a, i) + Limb(b, i)]
        Carry(i) == \E j \in 1..(i - 1) :
                       /\ s[j] >= Base
                       /\ \A k \in (j + 1)..(i - 1) : s[k] >= Base - 1
    IN LNorm([i \in 1..n |-> (s[i] + (IF Carry(i) THEN 1 ELSE 0)) % Base])

\* a * d for one limb d
LMulLimb(a, d) ==
    LAdd(LNorm([i \in 1..Len(a) |-> (a[i] * d) % Base]),
         LNorm(<<0>> \o [i \in 1..Len(a) |-> (a[i] * d) \div Base]))

LMul(a, b) ==
    LET F[i \in 0..Len(b)] ==
            IF i = 0 THEN <<>>
            ELSE LAdd(F[i - 1], LNorm(Rep(i - 1, 0) \o LMulLimb(a, b[i])))
    IN F[Len(b)]

\* a * 2^k
LShl(a, k) == LNorm(Rep(k \div LimbBits, 0) \o LMulLimb(a, 2^(k % LimbBits)))

\* a \div 2^k
LShr(a, k) ==
    LET q == k \div LimbBits
        r == k % LimbBits
    IN LNorm([i \in 1..(Len(a) - q) |->
                 (Limb(a, i + q) \div 2^r) + (Limb(a, i + q + 1) % 2^r) * 2^(LimbBits - r)])

LBit(a, i) == (Limb(a, ((i - 1) \div LimbBits) + 1) \div 2^((i - 1) % LimbBits)) % 2

LBitLen(a) ==
    IF a = <<>> THEN 0
    ELSE (Len(a) - 1) * LimbBits
         + (CHOOSE w \in 1..LimbBits : 2^(w - 1) <= a[Len(a)] /\ a[Len(a)] < 2^w)

LLe(a, b) ==
    \/ a = b
    \/ Len(a) < Len(b)
    \/ /\ Len(a) = Len(b)
       /\ \E i \in 1..Len(a) : /\ a[i] < b[i]
                               /\ \A j \in (i + 1)..Len(a) : a[j] = b[j]

FZero == [m |-> <<>>, e |-> 0]

\* the double nearest to m * 2^e (+ a little, if sticky), ties to even
FRound(m, e, sticky) ==
    LET len == LBitLen(m)
        d == len - MantissaBits
    IN IF len = 0 THEN FZero
       ELSE IF d <= 0 THEN [m |-> LShl(m, 0 - d), e |-> e + d]
       ELSE LET kept == LShr(m, d)
                rest == sticky \/ \E i \in 1..(d - 1) : LBit(m, i) = 1
                up == LBit(m, d) = 1 /\ (rest \/ LBit(kept, 1) = 1)
                r == IF up THEN LAdd(kept, <<1>>) ELSE kept
            IN IF LBitLen(r) > MantissaBits
               THEN [m |-> LShr(r, 1), e |-> e + d + 1]
               ELSE [m |-> r, e |-> e + d]

\* the double a decimal literal or a true division n / d evaluates to
QuotientLimbs == 5
FromRatio(n, d) ==
    LET R[i \in 0..QuotientLimbs] == IF i = 0 THEN n % d ELSE (R[i - 1] * Base) % d
        frac == [j \in 1..QuotientLimbs |-> (R[QuotientLimbs - j] * Base) \div d]
    IN FRound(LNorm(frac \o <<n \div d>>), 0 - QuotientLimbs * LimbBits,
              R[QuotientLimbs] # 0)

FAdd(x, y) ==
    IF x.m = <<>> THEN y
    ELSE IF y.m = <<>> THEN x
    ELSE LET e == Min(x.e, y.e)
         IN FRound(LAdd(LShl(x.m, x.e - e), LShl(y.m, y.e - e)), e, FALSE)

FMul(x, y) ==
    IF x.m = <<>> \/ y.m = <<>> THEN FZero
    ELSE FRound(LMul(x.m, y.m), x.e + y.e, FALSE)

FLe(x, y) ==
    \/ x.m = <<>>
    \/ y.m # <<>> /\ (x.e < y.e \/ (x.e = y.e /\ LLe(x.m, y.m)))

FMin(x, y) == IF FLe(x, y) THEN x ELSE y

\* 1.0
FOne == FromRatio(1, 1)

\* the distance from x to the next double above it
FUlp(x) == [m |-> LShl(<<1>>, MantissaBits - 1), e |-> x.e - (MantissaBits - 1)]

(***************************************************************************)
(* SimilarityMatcher (analyzer/matcher.py).  Scores are in percent.        *)
(***************************************************************************)
\* str.lower() on one word of the model's vocabulary
LowerWord(w) == IF w = "Representation" THEN "representation" ELSE w

\* `kw in text_lower` for one word of the text: substring containment
WordContains(w, kw) ==
    \/ w = kw
    \/ w = "representations" /\ kw = "representation"

\* `kw in text_lower`, the text being title + "\n" + abstract; the titles of
\* the model hold no keyword
InText(kw, abstract) ==
    \E k \in 1..Len(abstract) : WordContains(LowerWord(abstract[k]), kw)

\* matcher.py:137-148  the keyword table, in its order, weights in percent
KeywordTable == <<
    <<"representation", 15>>, <<"solver", 15>>, <<"compatibility", 15>>,
    <<"kappa", 10>>, <<"certification", 10>>, <<"multi-agent", 10>>,
    <<"hallucination", 8>>, <<"grounding", 8>>, <<"safety", 5>>,
    <<"alignment", 5>> >>

\* a mutant of KeywordMatch: the score is not capped
KeywordMatchUncapped(abstract) ==
    LET hit == Filter(KeywordTable, LAMBDA e : InText(e[1], abstract))
    IN [score |-> Sum(hit, LAMBDA e : e[2]),
        matched |-> [k \in 1..Len(hit) |-> hit[k][1]]]

\* matcher.py:132-158  _keyword_match
KeywordMatch(abstract) ==
    LET hit == Filter(KeywordTable, LAMBDA e : InText(e[1], abstract))
    IN [score |-> Min(Sum(hit, LAMBDA e : e[2]), 100),
        matched |-> [k \in 1..Len(hit) |-> hit[k][1]]]

\* matcher.py:150-158  the score of _keyword_match as Python computes it:
\* 0.0, `score += weight` in the order of the table, then min(score, 1.0)
KeywordSum64(abstract) ==
    LET hit == Filter(KeywordTable, LAMBDA e : InText(e[1], abstract))
        F[i \in 0..Len(hit)] ==
            IF i = 0 THEN FZero ELSE FAdd(F[i - 1], FromRatio(hit[i][2], 100))
    IN F[Len(hit)]

\* a mutant of KeywordMatch64: the sum is returned as it is
KeywordMatch64Uncapped(abstract) ==
    LET score == KeywordSum64(abstract)
    IN [sum |-> score, score |-> score]

\* matcher.py:158  min(score, 1.0); the sum is kept beside it
KeywordMatch64(abstract) ==
    LET score == KeywordSum64(abstract)
    IN [sum |-> score, score |-> FMin(score, FOne)]

\* the cosine similarity the embedding service's vectors give this text
\* against the topic of the corpus, in percent
TopicCos(abstract) ==
    CASE abstract = AbsCore -> 40
      [] abstract = AbsSafety -> 70
      [] abstract = AbsOff -> -5
      [] OTHER -> 55

\* the topic of the corpus (content/topics/topics.json)
TopicRSCT == [id |-> "rsct", title |-> "RSCT"]

\* the topics of a larger corpus, as load_topics reads them
TopicAgents == [id |-> "agents", title |-> "Agents"]
TopicSafety == [id |-> "safety", title |-> "Safety"]
TopicBaking == [id |-> "baking", title |-> "Baking"]

\* matcher.py:128-130, 184-187  the cosine similarity the embedding service's
\* vectors give this text against the topic `id`, in percent
Cosine(id, abstract) ==
    CASE id = "rsct" -> TopicCos(abstract)
      [] id = "agents" ->
            (CASE abstract = AbsTopic -> 55
               [] abstract = AbsSafety -> 60
               [] abstract = AbsRich -> 70
               [] OTHER -> 10)
      [] id = "safety" ->
            (CASE abstract = AbsSafety -> 90
               [] abstract = AbsRich -> 60
               [] OTHER -> 30)
      [] id = "baking" ->
            (CASE abstract = AbsOff -> 60
               [] abstract = AbsSafety -> 50
               [] abstract = AbsRich -> 60
               [] OTHER -> 5)

\* run.py:63  min_score, passed to the matcher as its threshold
MinScore == 50

\* run.py:63, 293  the values of min_score the pipeline is built with: the
\* default, and one outside [0, 1]
MinScores == {MinScore, 150}

\* run.py:59, 297  topics_dir: the directory exists or does not
TopicsDirs == {"present", "missing"}

\* a mutant of MatchPaper: the keyword path names the loaded topics when a
\* keyword matched
MatchPaperKeywordTopics(m, title, abstract) ==
    IF m.embed_mode = "keyword" \/ ~m.has_emb
    THEN LET km == KeywordMatch(abstract)
         IN [paper_id |-> <<>>, paper_title |-> title,
             similarity_score |-> km.score,
             matched_topics |-> IF km.matched = <<>> THEN <<>>
                                ELSE [k \in 1..Len(m.topics) |-> m.topics[k].title],
             top_keywords |-> km.matched]
    ELSE LET sims == SortDesc([k \in 1..Len(m.topics) |->
                                  <<m.topics[k].id, m.topics[k].title,
                                    Cosine(m.topics[k].id, abstract)>>],
                              LAMBDA t : t[3])
             above == Filter(sims, LAMBDA t : t[3] >= m.threshold)
         IN [paper_id |-> <<>>, paper_title |-> title,
             similarity_score |-> IF sims # <<>> THEN sims[1][3] ELSE 0,
             matched_topics |-> [k \in 1..Min(3, Len(above)) |-> above[k][2]],
             top_keywords |-> <<>>]

\* a mutant of MatchPaper: the similarities are left in the order of the
\* corpus
MatchPaperUnsorted(m, title, abstract) ==
    IF m.embed_mode = "keyword" \/ ~m.has_emb
    THEN LET km == KeywordMatch(abstract)
         IN [paper_id |-> <<>>, paper_title |-> title,
             similarity_score |-> km.score,
             matched_topics |-> <<>>, top_keywords |-> km.matched]
    ELSE LET sims == [k \in 1..Len(m.topics) |->
                         <<m.topics[k].id, m.topics[k].title,
                           Cosine(m.topics[k].id, abstract)>>]
             above == Filter(sims, LAMBDA t : t[3] >= m.threshold)
         IN [paper_id |-> <<>>, paper_title |-> title,
             similarity_score |-> IF sims # <<>> THEN sims[1][3] ELSE 0,
             matched_topics |-> [k \in 1..Min(3, Len(above)) |-> above[k][2]],
             top_keywords |-> <<>>]

\* matcher.py:160-199  match_paper: the MatchResult without its explanation
MatchPaper(m, title, abstract) ==
    IF m.embed_mode = "keyword" \/ ~m.has_emb
    THEN LET km == KeywordMatch(abstract)
         IN [paper_id |-> <<>>, paper_title |-> title,
             similarity_score |-> km.score,
             matched_topics |-> <<>>, top_keywords |-> km.matched]
    ELSE LET sims == SortDesc([k \in 1..Len(m.topics) |->
                                  <<m.topics[k].id, m.topics[k].title,
                                    Cosine(m.topics[k].id, abstract)>>],
                              LAMBDA t : t[3])
             above == Filter(sims, LAMBDA t : t[3] >= m.threshold)
         IN [paper_id |-> <<>>, paper_title |-> title,
             similarity_score |-> IF sims # <<>> THEN sims[1][3] ELSE 0,
             matched_topics |-> [k \in 1..Min(3, Len(above)) |-> above[k][2]],
             top_keywords |-> <<>>]

\* matcher.py:201-213  match_papers: one result per paper, then the sort
MatchPapers(m, ps) ==
    SortDesc([k \in 1..Len(ps) |->
                 [MatchPaper(m, ps[k].title, ps[k].abstract)
                     EXCEPT !.paper_id = ps[k].id]],
             LAMBDA r : r.similarity_score)

\* a mutant of MatchEmbeds: the mode alone decides
MatchEmbedsByMode(m) == m.embed_mode # "keyword"

\* np.dot(a, b), sum(x * y for x, y in zip(a, b))
Dot(a, b) == Sum([k \in 1..Min(Len(a), Len(b)) |-> a[k] * b[k]], LAMBDA x : x)

\* np.linalg.norm(a), math.sqrt(sum(x * x for x in a)), for the vectors of
\* the model, whose norms are whole numbers
Norm(a) == CHOOSE n \in 0..Dot(a, a) : n * n = Dot(a, a)

\* a similarity in percent
Number(x) == [nan |-> FALSE, value |-> x]

\* IEEE 0.0 / 0.0
NaN == [nan |-> TRUE, value |-> 0]

\* matcher.py:128-130  _cosine_similarity: numpy divides the dot product by
\* the product of the norms; 0.0 / 0.0 is nan, with a warning
MatcherCosine(a, b) ==
    IF Norm(a) * Norm(b) = 0 THEN NaN
    ELSE Number((100 * Dot(a, b)) \div (Norm(a) * Norm(b)))

\* rsct_scorer.py:113-121  _cosine_similarity
ScorerCosine(a, b) ==
    IF Norm(a) = 0 \/ Norm(b) = 0 THEN Number(0)
    ELSE Number((100 * Dot(a, b)) \div (Norm(a) * Norm(b)))

\* matcher.py:215-224  filter_relevant: match_papers, then the papers zipped
\* with its results and filtered by the score of the result
FilterRelevant(m, ps, min_score) ==
    Filter(Zip(ps, MatchPapers(m, ps)),
           LAMBDA pr : pr[2].similarity_score >= min_score)

\* matcher.py:164, 177  does match_paper call the embedding service?
MatchEmbeds(m) == ~(m.embed_mode = "keyword" \/ ~m.has_emb)

(***************************************************************************)
(* RSCTScorer (analyzer/rsct_scorer.py).  rsct_similarity is in units of   *)
(* 1/16000 and combined_score in units of 1/160000, so that n/16, 0.7, 0.3,*)
(* 0.6 and 0.4 are exact.                                                  *)
(***************************************************************************)
\* rsct_scorer.py:36-41
RSCT_CONCEPTS == <<
    "representation", "solver", "compatibility", "kappa",
    "noise", "spurious", "relevance", "decomposition",
    "simplex", "certification", "multi-agent", "swarm",
    "hallucination", "alignment", "safety", "constraint" >>

\* rsct_scorer.py:123-128  _keyword_score: the matches; the score is
\* Len(matches) / Len(RSCT_CONCEPTS)
KeywordOverlaps(abstract) == Filter(RSCT_CONCEPTS, LAMBDA c : InText(c, abstract))

\* the cosine similarity of this text's embedding and the whitepaper's, in
\* percent
RefCos(abstract) ==
    CASE abstract = AbsCore -> 20
      [] abstract = AbsSafety -> 60
      [] abstract = AbsOff -> -10
      [] OTHER -> 45

\* percent to units of 1/16000
Ticks(percent) == percent * 160

\* rsct_scorer.py:127  score = len(matches) / len(self.RSCT_CONCEPTS)
KeywordScore64(abstract) ==
    FromRatio(Len(KeywordOverlaps(abstract)), Len(RSCT_CONCEPTS))

\* rsct_scorer.py:149-156  rsct_similarity as Python computes it when
\* embed_score = keyword_score (no whitepaper embedding, or no embedding of
\* the paper)
FallbackSimilarity64(abstract) ==
    LET keyword_score == KeywordScore64(abstract)
    IN FAdd(FMul(FromRatio(7, 10), keyword_score),
            FMul(FromRatio(3, 10), keyword_score))

\* run.py:64  min_rsct_score
MinRsctScore == 30

\* a mutant of ScorePaper: with a whitepaper embedding, embed_score is the
\* cosine similarity whether or not the paper was embedded
ScorePaperAlwaysCosine(sc, embedded, id, title, abstract, topic_similarity) ==
    LET overlaps == KeywordOverlaps(abstract)
        keyword_score == (Len(overlaps) * 16000) \div Len(RSCT_CONCEPTS)
        embed_score == IF sc.wp_emb THEN Ticks(RefCos(abstract))
                       ELSE keyword_score
        rsct_similarity == (7 * embed_score + 3 * keyword_score) \div 10
    IN [paper_id |-> id, paper_title |-> title,
        rsct_similarity |-> rsct_similarity,
        topic_similarity |-> topic_similarity,
        combined_score |-> 6 * rsct_similarity + 4 * Ticks(topic_similarity),
        key_overlaps |-> overlaps]

\* rsct_scorer.py:130-166  score_paper; `embedded` says whether _embed
\* returned an embedding for the paper (it returns None when the service
\* raises or no client is configured)
ScorePaper(sc, embedded, id, title, abstract, topic_similarity) ==
    LET overlaps == KeywordOverlaps(abstract)
        keyword_score == (Len(overlaps) * 16000) \div Len(RSCT_CONCEPTS)
        embed_score == IF sc.wp_emb /\ embedded THEN Ticks(RefCos(abstract))
                       ELSE keyword_score
        rsct_similarity == (7 * embed_score + 3 * keyword_score) \div 10
    IN [paper_id |-> id, paper_title |-> title,
        rsct_similarity |-> rsct_similarity,
        topic_similarity |-> topic_similarity,
        combined_score |-> 6 * rsct_similarity + 4 * Ticks(topic_similarity),
        key_overlaps |-> overlaps]

\* a mutant of RankPapers: the sort is by rsct_similarity
RankPapersByReference(sc, up, dicts, min_rsct_score) ==
    SortDesc(
        Filter([k \in 1..Len(dicts) |->
                   ScorePaper(sc, k \in up, dicts[k].id, dicts[k].title,
                              dicts[k].abstract, dicts[k].similarity_score)],
               LAMBDA r : r.rsct_similarity >= Ticks(min_rsct_score)),
        LAMBDA r : r.rsct_similarity)

\* rsct_scorer.py:168-187  rank_papers; `up` is the set of positions whose
\* embedding call succeeds
RankPapers(sc, up, dicts, min_rsct_score) ==
    SortDesc(
        Filter([k \in 1..Len(dicts) |->
                   ScorePaper(sc, k \in up, dicts[k].id, dicts[k].title,
                              dicts[k].abstract, dicts[k].similarity_score)],
               LAMBDA r : r.rsct_similarity >= Ticks(min_rsct_score)),
        LAMBDA r : r.combined_score)

(***************************************************************************)
(* The certification gate (run.py, run_adk.py).  kappa_gate, R, S, N are   *)
(* in percent.  has_rsn says whether the dict has the keys R, S and N      *)
(* (cert.get("R") is None without them).                                   *)
(***************************************************************************)
\* what a call of SwarmIt.certify may do: raise, allow, block
ReplyRaise == [ok |-> FALSE, allowed |-> FALSE, kappa_gate |-> 0,
               decision |-> "", R |-> 0, S |-> 0, N |-> 0]
ReplyAllow == [ok |-> TRUE, allowed |-> TRUE, kappa_gate |-> 85,
               decision |-> "EXECUTE", R |-> 80, S |-> 15, N |-> 5]
ReplyBlock == [ok |-> TRUE, allowed |-> FALSE, kappa_gate |-> 20,
               decision |-> "BLOCK", R |-> 20, S |-> 50, N |-> 30]

CertReplies == {ReplyRaise, ReplyAllow, ReplyBlock}

\* run.py:73-80  __init__: the client is kept only if the ADK is installed
\* and the sidecar answers the health check
SwarmitAfterInit(has_swarmit, healthy) ==
    IF has_swarmit /\ healthy THEN "client" ELSE "none"

\* a mutant of Certify: a raising collaborator blocks the stage
CertifyFailClosed(sw, reply, stage) ==
    IF sw = "none"
    THEN [allowed |-> TRUE, kappa_gate |-> 100, decision |-> "EXECUTE",
          has_rsn |-> FALSE, R |-> 0, S |-> 0, N |-> 0, stage |-> stage]
    ELSE IF reply.ok
    THEN [allowed |-> reply.allowed, kappa_gate |-> reply.kappa_gate,
          decision |-> reply.decision, has_rsn |-> TRUE,
          R |-> reply.R, S |-> reply.S, N |-> reply.N, stage |-> stage]
    ELSE [allowed |-> FALSE, kappa_gate |-> 0, decision |-> "ERROR",
          has_rsn |-> FALSE, R |-> 0, S |-> 0, N |-> 0, stage |-> stage]

\* a mutant of Certify: the default without a client carries a zero score
CertifyZeroDefault(sw, reply, stage) ==
    IF sw = "none"
    THEN [allowed |-> TRUE, kappa_gate |-> 0, decision |-> "EXECUTE",
          has_rsn |-> FALSE, R |-> 0, S |-> 0, N |-> 0, stage |-> stage]
    ELSE IF reply.ok
    THEN [allowed |-> reply.allowed, kappa_gate |-> reply.kappa_gate,
          decision |-> reply.decision, has_rsn |-> TRUE,
          R |-> reply.R, S |-> reply.S, N |-> reply.N, stage |-> stage]
    ELSE [allowed |-> TRUE, kappa_gate |-> 0, decision |-> "ERROR",
          has_rsn |-> FALSE, R |-> 0, S |-> 0, N |-> 0, stage |-> stage]

\* run.py:82-100  CertifiedPipeline.certify
Certify(sw, reply, stage) ==
    IF sw = "none"
    THEN [allowed |-> TRUE, kappa_gate |-> 100, decision |-> "EXECUTE",
          has_rsn |-> FALSE, R |-> 0, S |-> 0, N |-> 0, stage |-> stage]
    ELSE IF reply.ok
    THEN [allowed |-> reply.allowed, kappa_gate |-> reply.kappa_gate,
          decision |-> reply.decision, has_rsn |-> TRUE,
          R |-> reply.R, S |-> reply.S, N |-> reply.N, stage |-> stage]
    ELSE [allowed |-> TRUE, kappa_gate |-> 0, decision |-> "ERROR",
          has_rsn |-> FALSE, R |-> 0, S |-> 0, N |-> 0, stage |-> stage]

\* run_adk.py:125-151  AnalystAgent.certify
AnalystCertify(sw, reply, stage) ==
    IF sw = "none"
    THEN [allowed |-> TRUE, kappa_gate |-> 100, decision |-> "EXECUTE",
          has_rsn |-> TRUE, R |-> 85, S |-> 12, N |-> 3, stage |-> stage]
    ELSE IF reply.ok
    THEN [allowed |-> reply.allowed, kappa_gate |-> reply.kappa_gate,
          decision |-> reply.decision, has_rsn |-> TRUE,
          R |-> reply.R, S |-> reply.S, N |-> reply.N, stage |-> stage]
    ELSE [allowed |-> TRUE, kappa_gate |-> 0, decision |-> "ERROR",
          has_rsn |-> FALSE, R |-> 0, S |-> 0, N |-> 0, stage |-> stage]

\* history: how a certify call went
CertCall(how, sw, reply, c) ==
    [how |-> IF sw = "none" THEN how ELSE IF reply.ok THEN "answered" ELSE "error",
     cert |-> c]

(***************************************************************************)
(* The renderers (publisher/mdx_generator.py, publisher/pdf_generator.py). *)
(***************************************************************************)
\* mdx_generator.py:20-33  the fields of the dataclass PaperData
PaperDataFields == {"id", "title", "abstract", "authors", "source", "url",
                    "pdf_url", "published_date", "similarity_score",
                    "matched_topics", "categories"}

\* mdx_generator.py:33  categories has a default
PaperDataRequired == PaperDataFields \ {"categories"}

\* run.py:224-242  the keyword arguments run() passes to PaperData
RunPaperDataKwargs == PaperDataFields \cup
    {"rsct_R", "rsct_S", "rsct_N", "rsct_kappa", "rsct_decision"}

\* mdx_generator.py:20-21  the __init__ a dataclass generates: an unknown or
\* a missing keyword argument is a TypeError
PaperDataInit(kwargs) ==
    IF kwargs \subseteq PaperDataFields /\ PaperDataRequired \subseteq kwargs
    THEN "ok" ELSE "TypeError"

\* run.py:220  the blog posts are made for the first 10 papers
TopPosts == 10

\* run.py:257  the PDF reviews are made for the first 5 papers
TopPdf == 5

\* run.py:194  the summary lists the first 5 papers
TopShown == 5

\* a mutant of BuildPaperData: a paper whose certification is not allowed is
\* left out
BuildPaperDataAllowedOnly(how, sw, replies, top) ==
    LET F[i \in 0..Len(top)] ==
            IF i = 0 THEN [raised |-> FALSE, data |-> <<>>, log |-> <<>>]
            ELSE IF F[i - 1].raised THEN F[i - 1]
            ELSE LET c == Certify(sw, replies[i], "paper")
                     log == Append(F[i - 1].log, CertCall(how, sw, replies[i], c))
                 IN IF ~c.allowed
                    THEN [raised |-> FALSE, data |-> F[i - 1].data, log |-> log]
                    ELSE IF PaperDataInit(RunPaperDataKwargs) = "ok"
                    THEN [raised |-> FALSE,
                          data |-> Append(F[i - 1].data,
                              [id |-> PaperId(top[i][1]),
                               similarity_score |-> top[i][3].combined_score,
                               matched_topics |-> top[i][2].matched_topics,
                               has_rsn |-> c.has_rsn, rsct_R |-> c.R,
                               rsct_S |-> c.S, rsct_N |-> c.N,
                               rsct_kappa |-> c.kappa_gate,
                               rsct_decision |-> c.decision]),
                          log |-> log]
                    ELSE [raised |-> TRUE, data |-> F[i - 1].data, log |-> log]
    IN F[Len(top)]

\* run.py:219-242  the loop that builds paper_data: one certify call per
\* paper, then the PaperData constructor
BuildPaperData(how, sw, replies, top) ==
    LET F[i \in 0..Len(top)] ==
            IF i = 0 THEN [raised |-> FALSE, data |-> <<>>, log |-> <<>>]
            ELSE IF F[i - 1].raised THEN F[i - 1]
            ELSE LET c == Certify(sw, replies[i], "paper")
                     log == Append(F[i - 1].log, CertCall(how, sw, replies[i], c))
                 IN IF PaperDataInit(RunPaperDataKwargs) = "ok"
                    THEN [raised |-> FALSE,
                          data |-> Append(F[i - 1].data,
                              [id |-> PaperId(top[i][1]),
                               similarity_score |-> top[i][3].combined_score,
                               matched_topics |-> top[i][2].matched_topics,
                               has_rsn |-> c.has_rsn, rsct_R |-> c.R,
                               rsct_S |-> c.S, rsct_N |-> c.N,
                               rsct_kappa |-> c.kappa_gate,
                               rsct_decision |-> c.decision]),
                          log |-> log]
                    ELSE [raised |-> TRUE, data |-> F[i - 1].data, log |-> log]
    IN F[Len(top)]

\* mdx_generator.py:212-225  generate_and_save: a paper whose post cannot be
\* generated or written is skipped
GenerateAndSave(data, failing) ==
    LET F[i \in 0..Len(data)] ==
            IF i = 0 THEN <<>>
            ELSE IF i \in failing THEN F[i - 1] ELSE Append(F[i - 1], data[i].id)
    IN F[Len(data)]

\* pdf_generator.py:158-172  generate_review formats R, S and N with :.3f
\* whenever rsct_kappa is not None; formatting None is a TypeError
GenerateReview(p) ==
    IF p.kappa_set /\ ~p.has_rsn THEN "TypeError" ELSE "ok"

\* run.py:259-275  the loop that builds pdf_papers
BuildPdfPapers(how, sw, replies, top) ==
    [i \in 1..Len(top) |->
        LET c == Certify(sw, replies[i], "paper_pdf")
        IN [id |-> PaperId(top[i][1]),
            rsct_similarity |-> top[i][3].rsct_similarity,
            similarity_score |-> top[i][2].similarity_score,
            has_rsn |-> c.has_rsn, rsct_R |-> c.R, rsct_S |-> c.S,
            rsct_N |-> c.N, kappa_set |-> TRUE, rsct_kappa |-> c.kappa_gate,
            call |-> CertCall(how, sw, replies[i], c)]]

\* pdf_generator.py:249-274  generate_batch: the reviews of the first
\* max_papers papers; an exception of generate_review propagates
GenerateBatch(pdf_papers, max_papers) ==
    LET top == Prefix(pdf_papers, max_papers)
    IN [raised |-> \E i \in 1..Len(top) : GenerateReview(top[i]) = "TypeError",
        reviews |-> [i \in 1..Len(top) |-> top[i].id]]

(***************************************************************************)
(* CertifiedPipeline.run (run.py:102-286)                                  *)
(***************************************************************************)
\* run.py:104-114  `results` as run() creates it
EmptySummary ==
    [papers_fetched |-> 0, papers_matched |-> 0, papers_rsct_ranked |-> 0,
     posts_generated |-> 0, pdfs_generated |-> 0, certifications |-> <<>>,
     top_papers |-> <<>>, errors |-> <<>>]

NoCert == [allowed |-> TRUE, kappa_gate |-> 0, decision |-> "", has_rsn |-> FALSE,
           R |-> 0, S |-> 0, N |-> 0, stage |-> "none"]

\* run.py:144  paper_dicts
PaperDict(p) == [id |-> PaperId(p), title |-> p.title, abstract |-> p.abstract]

\* a mutant of Relevant: every paper is paired with every match, not zipped
RelevantCross(ps, ms, min_score) ==
    Filter([k \in 1..(Len(ps) * Len(ms)) |->
               <<ps[((k - 1) \div Len(ms)) + 1], ms[((k - 1) % Len(ms)) + 1]>>],
           LAMBDA pm : pm[2].similarity_score >= min_score)

\* run.py:148  relevant: the papers zipped with the matches, filtered by the
\* score of the match
Relevant(ps, ms, min_score) ==
    Filter(Zip(ps, ms), LAMBDA pm : pm[2].similarity_score >= min_score)

\* run.py:166-174  rsct_paper_dicts
RsctPaperDicts(rel) ==
    [k \in 1..Len(rel) |->
        [id |-> PaperId(rel[k][1]), title |-> rel[k][1].title,
         abstract |-> rel[k][1].abstract,
         similarity_score |-> rel[k][2].similarity_score]]

\* run.py:180  rsct_lookup = {s.paper_id: s for s in rsct_scores}: has the key?
InLookup(scores, id) == \E k \in 1..Len(scores) : scores[k].paper_id = id

\* run.py:180, 185  rsct_lookup.get(paper.id): a later score replaces an
\* earlier one of the same id
Lookup(scores, id) ==
    LET ks == {k \in 1..Len(scores) : scores[k].paper_id = id}
    IN scores[CHOOSE k \in ks : \A j \in ks : j <= k]

\* a mutant of RelevantWithRsct: the list is left in the order of `relevant`
RelevantWithRsctUnsorted(rel, scores) ==
    LET have == Filter(rel, LAMBDA pm : InLookup(scores, PaperId(pm[1])))
    IN [k \in 1..Len(have) |->
           <<have[k][1], have[k][2], Lookup(scores, PaperId(have[k][1]))>>]

\* run.py:183-190  relevant_with_rsct, sorted by combined score
RelevantWithRsct(rel, scores) ==
    LET have == Filter(rel, LAMBDA pm : InLookup(scores, PaperId(pm[1])))
    IN SortDesc([k \in 1..Len(have) |->
                    <<have[k][1], have[k][2], Lookup(scores, PaperId(have[k][1]))>>],
                LAMBDA x : x[3].combined_score)

\* run.py:194-203  the entries appended to results["top_papers"]
TopPapers(rk) ==
    [k \in 1..Min(TopShown, Len(rk)) |->
        [title |-> rk[k][1].title,
         topic_score |-> rk[k][2].similarity_score,
         rsct_score |-> rk[k][3].rsct_similarity,
         combined_score |-> rk[k][3].combined_score]]

\* run.py:128-130  after the fetch
AfterFetch(ps) == IF ps = <<>> THEN "done" ELSE "gate1"

\* run.py:138-140  after the scanner gate
AfterGate1(c) == IF ~c.allowed THEN "done" ELSE "match"

\* a mutant of AfterMatch: an empty match fetches again
AfterMatchRetry(rel) == IF rel = <<>> THEN "fetch" ELSE "gate2"

\* run.py:152-154  after the matching
AfterMatch(rel) == IF rel = <<>> THEN "done" ELSE "gate2"

\* a mutant of AfterScore: the dry run is not looked at
AfterScoreNoDryRun(c, dry) == IF ~c.allowed THEN "done" ELSE "render"

\* run.py:205-216  after the scoring: the analyzer gate, then the dry run
AfterScore(c, dry) == IF ~c.allowed THEN "done" ELSE IF dry THEN "done" ELSE "render"

\* the analyzer is not called on its own
AnalyzerIdle ==
    /\ apc = "idle"
    /\ acase = <<>>
    /\ amatch = <<>>
    /\ ascore = <<>>
    /\ aranked = <<>>
    /\ atop = <<>>
    /\ arelevant = <<>>
    /\ acos = <<>>

RunInit ==
    /\ pc = "load_topics"
    /\ config \in [topics_dir : TopicsDirs, min_score : MinScores]
    /\ \E has_swarmit, healthy \in BOOLEAN :
          /\ collab = (IF ~has_swarmit THEN "absent"
                       ELSE IF ~healthy THEN "unreachable" ELSE "up")
          /\ swarmit = SwarmitAfterInit(has_swarmit, healthy)
    /\ dry_run \in BOOLEAN
    /\ generate_pdfs \in BOOLEAN
    /\ \E mode \in {"openai", "sbert", "keyword"} :
          /\ matcher = [embed_mode |-> mode, threshold |-> config.min_score,
                        topics |-> <<>>, has_emb |-> FALSE]
          /\ \E wp \in (IF mode = "openai" THEN BOOLEAN ELSE {FALSE}) :
                scorer = [openai |-> (mode = "openai"), wp_emb |-> wp]
    /\ papers = <<>>
    /\ matches = <<>>
    /\ relevant = <<>>
    /\ cert = NoCert
    /\ rsct_scores = <<>>
    /\ ranked = <<>>
    /\ paper_data = <<>>
    /\ summary = EmptySummary
    /\ trace = <<>>
    /\ certlog = <<>>
    /\ exc = ""
    /\ adk = <<>>

\* the fetch coroutine is not modelled step by step in the pipeline
FetchIdle ==
    /\ fpc = "idle"
    /\ task = [i \in SourceIdx |-> Pending]
    /\ results = <<>>
    /\ merged = <<>>
    /\ unique = <<>>
    /\ overtaken = FALSE

\* history: the stage was entered
InTrace(stage) == \E k \in 1..Len(trace) : trace[k] = stage

\* run() ends with an exception
Raise(e) ==
    /\ pc' = "raised"
    /\ exc' = e

\* run.py:116-120, matcher.py:73-112  load_topics: the corpus is missing or
\* empty, holds one topic, or cannot be read; the topic embeddings are
\* computed by _embed, which has no handler of its own.  In a directory that
\* does not exist topics.json does not exist and glob("*.txt") finds nothing
LoadTopics ==
    /\ pc = "load_topics"
    /\ trace' = Append(trace, "LOAD_TOPICS")
    /\ \E corpus \in (IF config.topics_dir = "missing" THEN {"none"}
                       ELSE {"none", "one", "malformed"}),
          embed_ok \in BOOLEAN :
          IF corpus = "malformed"
          THEN Raise("TopicsError") /\ UNCHANGED matcher
          ELSE IF corpus = "none"
          THEN pc' = "fetch" /\ UNCHANGED <<matcher, exc>>
          ELSE IF matcher.embed_mode = "openai" /\ ~embed_ok
          THEN /\ Raise("EmbeddingError")
               /\ matcher' = [matcher EXCEPT !.topics = <<TopicRSCT>>]
          ELSE /\ pc' = "fetch"
               /\ matcher' = [matcher EXCEPT !.topics = <<TopicRSCT>>,
                                 !.has_emb = (matcher.embed_mode # "keyword")]
               /\ UNCHANGED exc
    /\ UNCHANGED <<fvars, avars, adk, config, collab, swarmit, dry_run, generate_pdfs, scorer, papers, matches,
                   relevant, cert, rsct_scores, ranked, paper_data, summary, certlog>>

\* the outcomes of the six adapter tasks in a pipeline run: arXiv returns
\* `a` or raises, pubmed returns `b`, two adapters raise, two return nothing
RunTasks(a, b, arxiv_raises) ==
    [i \in SourceIdx |->
        IF i = 1 THEN (IF arxiv_raises THEN Raised ELSE Returned(Response(1, a)))
        ELSE IF i = Len(Sources) THEN Returned(Response(i, b))
        ELSE IF i \in {2, 3} THEN Raised
        ELSE Returned(<<>>)]

\* run.py:122-130  stage 1
Fetch ==
    /\ pc = "fetch"
    /\ trace' = Append(trace, "FETCH")
    /\ \E a \in SeqsUpTo(Items, MaxPapers), arxiv_raises \in BOOLEAN :
       \E b \in SeqsUpTo(Items, MaxPapers - Len(a)) :
          papers' = FetchAllSources(RunTasks(a, b, arxiv_raises))
    /\ summary' = [summary EXCEPT !.papers_fetched = Len(papers')]
    /\ pc' = AfterFetch(papers')
    /\ UNCHANGED <<fvars, avars, adk, config, collab, swarmit, dry_run, generate_pdfs, matcher, scorer, matches,
                   relevant, cert, rsct_scores, ranked, paper_data, certlog, exc>>

\* run.py:132-140  the scanner gate
Gate1 ==
    /\ pc = "gate1"
    /\ trace' = Append(trace, "GATE_1")
    /\ \E reply \in CertReplies :
          /\ cert' = Certify(swarmit, reply, "scanner")
          /\ certlog' = Append(certlog, CertCall(collab, swarmit, reply, cert'))
    /\ summary' = [summary EXCEPT
          !.certifications = Append(@, cert'),
          !.errors = IF ~cert'.allowed
                     THEN Append(@, "Scanner output blocked by certification")
                     ELSE @]
    /\ pc' = AfterGate1(cert')
    /\ UNCHANGED <<fvars, avars, adk, config, collab, swarmit, dry_run, generate_pdfs, matcher, scorer, papers,
                   matches, relevant, rsct_scores, ranked, paper_data, exc>>

\* run.py:142-154  stage 2: match_papers calls _embed once per paper on the
\* embedding path, and the hosted service may raise
Match ==
    /\ pc = "match"
    /\ trace' = Append(trace, "MATCH")
    /\ \E embed_ok \in BOOLEAN :
          IF MatchEmbeds(matcher) /\ matcher.embed_mode = "openai" /\ ~embed_ok
          THEN /\ Raise("EmbeddingError")
               /\ UNCHANGED <<matches, relevant, summary>>
          ELSE /\ matches' = MatchPapers(matcher,
                                 [k \in 1..Len(papers) |-> PaperDict(papers[k])])
               /\ relevant' = Relevant(papers, matches', config.min_score)
               /\ summary' = [summary EXCEPT !.papers_matched = Len(relevant')]
               /\ pc' = AfterMatch(relevant')
               /\ UNCHANGED exc
    /\ UNCHANGED <<fvars, avars, adk, config, collab, swarmit, dry_run, generate_pdfs, matcher, scorer, papers,
                   cert, rsct_scores, ranked, paper_data, certlog>>

\* run.py:156-162  the certify call of the analyzer gate
Gate2Call ==
    /\ pc = "gate2"
    /\ trace' = Append(trace, "GATE_2")
    /\ \E reply \in CertReplies :
          /\ cert' = Certify(swarmit, reply, "analyzer")
          /\ certlog' = Append(certlog, CertCall(collab, swarmit, reply, cert'))
    /\ summary' = [summary EXCEPT !.certifications = Append(@, cert')]
    /\ pc' = "score"
    /\ UNCHANGED <<fvars, avars, adk, config, collab, swarmit, dry_run, generate_pdfs, matcher, scorer, papers,
                   matches, relevant, rsct_scores, ranked, paper_data, exc>>

\* run.py:164-216  stage 2.5: scoring against the whitepaper, the summary of
\* the top papers, then the decision of the analyzer gate and the dry run
Score ==
    /\ pc = "score"
    /\ trace' = Append(trace, "SCORE")
    /\ \E up \in (IF scorer.wp_emb THEN SUBSET (1..Len(relevant)) ELSE {{}}) :
          rsct_scores' = RankPapers(scorer, up, RsctPaperDicts(relevant), MinRsctScore)
    /\ ranked' = RelevantWithRsct(relevant, rsct_scores')
    /\ summary' = [summary EXCEPT
          !.papers_rsct_ranked = Len(rsct_scores'),
          !.top_papers = @ \o TopPapers(ranked'),
          !.errors = IF ~cert.allowed
                     THEN Append(@, "Analyzer output blocked by certification")
                     ELSE @]
    /\ pc' = AfterScore(cert, dry_run)
    /\ UNCHANGED <<fvars, avars, adk, config, collab, swarmit, dry_run, generate_pdfs, matcher, scorer, papers,
                   matches, relevant, cert, paper_data, certlog, exc>>

\* run.py:218-246  stage 3: paper_data is built, then the posts are
\* generated and saved
Render ==
    /\ pc = "render"
    /\ trace' = Append(trace, "RENDER")
    /\ LET top == Prefix(ranked, TopPosts)
       IN \E replies \in [1..Len(top) -> CertReplies], failing \in SUBSET (1..Len(top)) :
             LET built == BuildPaperData(collab, swarmit, replies, top)
             IN /\ certlog' = certlog \o built.log
                /\ cert' = IF built.log = <<>> THEN cert
                           ELSE built.log[Len(built.log)].cert
                /\ paper_data' = built.data
                /\ IF built.raised
                   THEN Raise("TypeError") /\ UNCHANGED summary
                   ELSE /\ summary' = [summary EXCEPT !.posts_generated =
                                          Len(GenerateAndSave(built.data, failing))]
                        /\ pc' = "gate3"
                        /\ UNCHANGED exc
    /\ UNCHANGED <<fvars, avars, adk, config, collab, swarmit, dry_run, generate_pdfs, matcher, scorer, papers,
                   matches, relevant, rsct_scores, ranked>>

\* run.py:248-252  the publisher gate: the result is recorded, not examined
Gate3 ==
    /\ pc = "gate3"
    /\ trace' = Append(trace, "GATE_3")
    /\ \E reply \in CertReplies :
          /\ cert' = Certify(swarmit, reply, "publisher")
          /\ certlog' = Append(certlog, CertCall(collab, swarmit, reply, cert'))
    /\ summary' = [summary EXCEPT !.certifications = Append(@, cert')]
    /\ pc' = "pdf"
    /\ UNCHANGED <<fvars, avars, adk, config, collab, swarmit, dry_run, generate_pdfs, matcher, scorer, papers,
                   matches, relevant, rsct_scores, ranked, paper_data, exc>>

\* run.py:254-286  stage 4: the PDF reviews of the top papers, then return
PdfStage ==
    /\ pc = "pdf"
    /\ IF generate_pdfs /\ ranked # <<>>
       THEN LET top == Prefix(ranked, TopPdf)
            IN \E replies \in [1..Len(top) -> CertReplies] :
                  LET pdf_papers == BuildPdfPapers(collab, swarmit, replies, top)
                      batch == GenerateBatch(pdf_papers, TopPdf)
                  IN /\ trace' = Append(trace, "PDF")
                     /\ certlog' = certlog \o
                           [k \in 1..Len(pdf_papers) |-> pdf_papers[k].call]
                     /\ cert' = pdf_papers[Len(pdf_papers)].call.cert
                     /\ IF batch.raised
                        THEN Raise("TypeError") /\ UNCHANGED summary
                        ELSE /\ summary' = [summary EXCEPT
                                   !.pdfs_generated = Len(batch.reviews)]
                             /\ pc' = "done"
                             /\ UNCHANGED exc
       ELSE /\ pc' = "done"
            /\ UNCHANGED <<trace, certlog, cert, summary, exc>>
    /\ UNCHANGED <<fvars, avars, adk, config, collab, swarmit, dry_run, generate_pdfs, matcher, scorer, papers,
                   matches, relevant, rsct_scores, ranked, paper_data>>

\* run_adk.py:153-211  AnalystAgent.execute: relevant_with_rsct
AnalystExecute(m, sc, up, ps, min_score) ==
    LET ms == MatchPapers(m, [k \in 1..Len(ps) |-> PaperDict(ps[k])])
        rel == Relevant(ps, ms, min_score)
    IN RelevantWithRsct(rel, RankPapers(sc, up, RsctPaperDicts(rel), MinRsctScore))

\* run_adk.py:221-259  WriterAgent.execute: the papers its loop goes through,
\* and how the PaperData constructor call of 236-254 ends
WriterExecute(rk) ==
    LET top == Prefix(rk, TopPosts)
    IN [papers |-> top,
        raised |-> top # <<>> /\ PaperDataInit(RunPaperDataKwargs) # "ok"]

\* run_adk.py:306-312  `results` as run_pipeline creates it, and the papers
\* of the writer
AdkResults(fetched, matched, errors, writer_papers) ==
    [papers_fetched |-> fetched, papers_matched |-> matched, posts_generated |-> 0,
     errors |-> errors, writer_papers |-> writer_papers]

\* run_adk.py:283-358  run_pipeline, on the papers the finished run fetched,
\* with the same corpus, the same answers of the embedding service and the
\* same scores: scanner, analyst, then the writer unless the run is dry; an
\* exception of an agent is caught at 337 and recorded in errors
AdkRunPipeline ==
    /\ pc \in {"done", "raised"}
    /\ InTrace("FETCH")
    /\ adk = <<>>
    /\ IF papers = <<>>
       THEN adk' = AdkResults(0, 0, <<>>, <<>>)
       ELSE \E embed_ok \in (IF MatchEmbeds(matcher) /\ matcher.embed_mode = "openai"
                              THEN BOOLEAN ELSE {TRUE}),
               up \in (IF scorer.wp_emb THEN SUBSET (1..Len(papers)) ELSE {{}}) :
               /\ InTrace("MATCH") => (embed_ok <=> exc # "EmbeddingError")
               /\ (scorer.wp_emb /\ InTrace("SCORE")) =>
                     rsct_scores = RankPapers(scorer, up, RsctPaperDicts(relevant),
                                              MinRsctScore)
               /\ IF ~embed_ok
                  THEN adk' = AdkResults(Len(papers), 0, <<"EmbeddingError">>, <<>>)
                  ELSE \E rk \in {AnalystExecute(matcher, scorer, up, papers,
                                                 config.min_score)} :
                          adk' = IF rk = <<>> \/ dry_run
                                 THEN AdkResults(Len(papers), Len(rk), <<>>, <<>>)
                                 ELSE AdkResults(Len(papers), Len(rk),
                                         IF WriterExecute(rk).raised
                                         THEN <<"TypeError">> ELSE <<>>,
                                         WriterExecute(rk).papers)
    /\ UNCHANGED <<fvars, avars, pc, config, collab, swarmit, dry_run, generate_pdfs,
                   matcher, scorer, papers, matches, relevant, cert, rsct_scores,
                   ranked, paper_data, summary, trace, certlog, exc>>

RunNext ==
    \/ AdkRunPipeline
    \/ LoadTopics
    \/ Fetch
    \/ Gate1
    \/ Match
    \/ Gate2Call
    \/ Score
    \/ Render
    \/ Gate3
    \/ PdfStage

\* the state after CertifiedPipeline.__init__, on entry to run()
InitRun == RunInit /\ FetchIdle /\ AnalyzerIdle

SpecRun == InitRun /\ [][RunNext]_vars

\* the pipeline is not running
RunIdle ==
    /\ pc = "idle"
    /\ config = [topics_dir |-> "present", min_score |-> MinScore]
    /\ collab = "absent"
    /\ swarmit = "none"
    /\ dry_run = FALSE
    /\ generate_pdfs = FALSE
    /\ matcher = [embed_mode |-> "keyword", threshold |-> MinScore,
                  topics |-> <<>>, has_emb |-> FALSE]
    /\ scorer = [openai |-> FALSE, wp_emb |-> FALSE]
    /\ papers = <<>>
    /\ matches = <<>>
    /\ relevant = <<>>
    /\ cert = NoCert
    /\ rsct_scores = <<>>
    /\ ranked = <<>>
    /\ paper_data = <<>>
    /\ summary = EmptySummary
    /\ trace = <<>>
    /\ certlog = <<>>
    /\ exc = ""
    /\ adk = <<>>

\* the state on entry to fetch_all_sources
InitFetch == FetchInit /\ RunIdle /\ AnalyzerIdle

SpecFetch == InitFetch /\ [][FetchNext]_vars


(***************************************************************************)
(* The analyzer called on its own: match_paper and score_paper on one      *)
(* paper; rank_papers, and the selection run() makes of its result, on a   *)
(* list of papers.                                                         *)
(***************************************************************************)
\* papers in a list of mixed records
MaxList == 3

\* papers in a list long enough for the slices of run() to cut it
MaxRanked == 11

AnalyzerAbstracts == {AbsCore, AbsSafety, AbsTopic, AbsEmpty, AbsThree, AbsRich, AbsOff}

\* matcher.py:51-71, 73-112  a matcher after its constructor, or after
\* load_topics has read a corpus of one topic
Matchers ==
    {[embed_mode |-> mode, threshold |-> MinScore, topics |-> <<>>, has_emb |-> FALSE] :
        mode \in {"openai", "sbert", "keyword"}}
    \cup {[embed_mode |-> mode, threshold |-> MinScore, topics |-> <<TopicRSCT>>,
           has_emb |-> (mode # "keyword")] :
              mode \in {"openai", "sbert", "keyword"}}

\* matcher.py:55  the threshold of a matcher built without one
DefaultThreshold == 60

\* matcher.py:73-112  a matcher with embeddings after load_topics has read a
\* corpus of four topics, in one order or the other, with the threshold of
\* run() or its own default
CorpusMatchers ==
    {[embed_mode |-> mode, threshold |-> th, topics |-> corpus, has_emb |-> TRUE] :
        mode \in {"openai", "sbert"}, th \in {MinScore, DefaultThreshold},
        corpus \in {<<TopicRSCT, TopicAgents, TopicSafety, TopicBaking>>,
                    <<TopicBaking, TopicSafety, TopicAgents, TopicRSCT>>}}

\* rsct_scorer.py:43-64, 84-96  a scorer after its constructor: without a
\* client, with a client and no whitepaper embedding, or with both
Scorers == {[openai |-> FALSE, wp_emb |-> FALSE], [openai |-> TRUE, wp_emb |-> FALSE],
            [openai |-> TRUE, wp_emb |-> TRUE]}

\* topic_similarity as the caller of score_paper passes it, in percent
TopicSimilarities == {0, 100}

\* min_rsct_score as the caller of rank_papers passes it, in percent
Thresholds == {0, MinRsctScore}

\* one paper for match_paper and score_paper; `embedded` says whether _embed
\* returns an embedding of the paper, which takes a client
PaperCases ==
    {[kind |-> "paper", matcher |-> c[1], scorer |-> c[2], embedded |-> c[3],
      title |-> TitleShort, abstract |-> c[4], topic_similarity |-> c[5]] :
        c \in {d \in Matchers \X Scorers \X BOOLEAN \X AnalyzerAbstracts
                        \X TopicSimilarities : d[3] => d[2].openai}}
    \cup {[kind |-> "paper", matcher |-> m,
           scorer |-> [openai |-> (m.embed_mode = "openai"), wp_emb |-> FALSE],
           embedded |-> FALSE, title |-> TitleShort, abstract |-> a,
           topic_similarity |-> 0] :
              m \in CorpusMatchers, a \in AnalyzerAbstracts}

\* run.py:148  `relevant` for the papers of a fetch: the k-th paper with the
\* match zip() pairs it with
RelevantOf(recs) ==
    [k \in 1..Len(recs) |->
        <<[source |-> "arxiv", n |-> k, title |-> TitleShort,
           abstract |-> recs[k].abstract],
          [paper_id |-> <<"arxiv", k>>, similarity_score |-> recs[k].similarity_score]>>]

MixedRecords ==
    {[abstract |-> AbsCore, similarity_score |-> 100],
     [abstract |-> AbsTopic, similarity_score |-> 65],
     [abstract |-> AbsRich, similarity_score |-> 0]}

LongRecords ==
    {[abstract |-> AbsCore, similarity_score |-> 65],
     [abstract |-> AbsRich, similarity_score |-> 100]}

\* a list for rank_papers: a short one of mixed records with any scorer and
\* threshold, `up` being the positions whose embedding call succeeds, or a
\* long one with the settings of run()
ListCases ==
    {[kind |-> "list", scorer |-> c[1], up |-> c[3], relevant |-> RelevantOf(c[2]),
      min_rsct_score |-> c[4]] :
        c \in {d \in Scorers \X SeqsUpTo(MixedRecords, MaxList)
                        \X (SUBSET (1..MaxList)) \X Thresholds :
                  d[3] \subseteq (IF d[1].wp_emb THEN 1..Len(d[2]) ELSE {})}}
    \cup {[kind |-> "list", scorer |-> [openai |-> FALSE, wp_emb |-> FALSE], up |-> {},
           relevant |-> RelevantOf(recs), min_rsct_score |-> MinRsctScore] :
              recs \in [1..MaxRanked -> LongRecords]}

\* the paper dicts of a call of match_papers: the k-th has the id k
PaperDicts(abstracts) ==
    [k \in 1..Len(abstracts) |->
        [id |-> <<"arxiv", k>>, title |-> TitleShort, abstract |-> abstracts[k]]]

\* a list of papers for match_papers and filter_relevant, with a matcher on
\* the keyword path or on the embedding path
PapersCases ==
    {[kind |-> "papers", matcher |-> m, papers |-> PaperDicts(abstracts),
      min_score |-> min_score] :
        m \in {[embed_mode |-> "keyword", threshold |-> MinScore, topics |-> <<>>,
                has_emb |-> FALSE],
               [embed_mode |-> "openai", threshold |-> MinScore,
                topics |-> <<TopicRSCT>>, has_emb |-> TRUE]},
        abstracts \in SeqsUpTo({AbsCore, AbsTopic, AbsOff}, MaxList),
        min_score \in {MinScore, DefaultThreshold}}

\* embedding vectors, the zero vector among them
Vectors == {<<0, 0>>, <<1, 0>>, <<0, 1>>, <<3, 4>>, <<4, 3>>, <<-3, -4>>}

\* two vectors for the _cosine_similarity of the matcher and of the scorer
CosineCases == {[kind |-> "cosine", a |-> a, b |-> b] : a, b \in Vectors}

AnalyzerInit ==
    /\ acase \in PaperCases \cup ListCases \cup PapersCases \cup CosineCases
    /\ apc = acase.kind
    /\ amatch = <<>>
    /\ ascore = <<>>
    /\ aranked = <<>>
    /\ atop = <<>>
    /\ arelevant = <<>>
    /\ acos = <<>>

\* matcher.py:160-199  match_paper(title, abstract); similarity_score is kept
\* in binary64 too where it is the keyword score
AMatchPaper ==
    /\ apc = "paper"
    /\ amatch' =
          LET r == MatchPaper(acase.matcher, acase.title, acase.abstract)
          IN IF MatchEmbeds(acase.matcher) THEN [result |-> r]
             ELSE LET km == KeywordMatch64(acase.abstract)
                  IN [result |-> r, score64 |-> km.score, sum64 |-> km.sum]
    /\ apc' = "matched"
    /\ UNCHANGED <<fvars, rvars, acase, ascore, aranked, atop, arelevant, acos>>

\* rsct_scorer.py:130-166  score_paper(id, title, abstract, topic_similarity);
\* rsct_similarity is kept in binary64 too where embed_score is keyword_score
AScorePaper ==
    /\ apc = "matched"
    /\ ascore' =
          LET r == ScorePaper(acase.scorer, acase.embedded, <<"arxiv", 1>>, acase.title,
                              acase.abstract, acase.topic_similarity)
          IN IF acase.scorer.wp_emb /\ acase.embedded THEN [result |-> r]
             ELSE [result |-> r, keyword64 |-> KeywordScore64(acase.abstract),
                   rsct64 |-> FallbackSimilarity64(acase.abstract)]
    /\ apc' = "scored"
    /\ UNCHANGED <<fvars, rvars, acase, amatch, aranked, atop, arelevant, acos>>

\* rsct_scorer.py:168-187, run.py:166-177  rank_papers(rsct_paper_dicts,
\* min_rsct_score)
ARankPapers ==
    /\ apc = "list"
    /\ aranked' = RankPapers(acase.scorer, acase.up, RsctPaperDicts(acase.relevant),
                             acase.min_rsct_score)
    /\ apc' = "ranked"
    /\ UNCHANGED <<fvars, rvars, acase, amatch, ascore, atop, arelevant, acos>>

\* run.py:179-190, 220, 259  relevant_with_rsct, and the slices the loops
\* that build paper_data and pdf_papers go through
ASelect ==
    /\ apc = "ranked"
    /\ atop' = LET rk == RelevantWithRsct(acase.relevant, aranked)
               IN [ranked |-> rk, posts |-> Prefix(rk, TopPosts),
                   pdfs |-> Prefix(rk, TopPdf)]
    /\ apc' = "selected"
    /\ UNCHANGED <<fvars, rvars, acase, amatch, ascore, aranked, arelevant, acos>>

\* matcher.py:201-213  match_papers(papers)
AMatchPapers ==
    /\ apc = "papers"
    /\ amatch' = [results |-> MatchPapers(acase.matcher, acase.papers)]
    /\ apc' = "papers_matched"
    /\ UNCHANGED <<fvars, rvars, acase, ascore, aranked, atop, arelevant, acos>>

\* matcher.py:215-224  filter_relevant(papers, min_score)
AFilterRelevant ==
    /\ apc = "papers_matched"
    /\ arelevant' = FilterRelevant(acase.matcher, acase.papers, acase.min_score)
    /\ apc' = "filtered"
    /\ UNCHANGED <<fvars, rvars, acase, amatch, ascore, aranked, atop, acos>>

\* matcher.py:128-130  SimilarityMatcher._cosine_similarity(a, b)
AMatcherCosine ==
    /\ apc = "cosine"
    /\ acos' = [matcher |-> MatcherCosine(acase.a, acase.b)]
    /\ apc' = "cosine_scorer"
    /\ UNCHANGED <<fvars, rvars, acase, amatch, ascore, aranked, atop, arelevant>>

\* rsct_scorer.py:113-121  RSCTScorer._cosine_similarity(a, b)
AScorerCosine ==
    /\ apc = "cosine_scorer"
    /\ acos' = [matcher |-> acos.matcher, scorer |-> ScorerCosine(acase.a, acase.b)]
    /\ apc' = "cosine_done"
    /\ UNCHANGED <<fvars, rvars, acase, amatch, ascore, aranked, atop, arelevant>>

AnalyzerNext ==
    \/ AMatcherCosine
    \/ AScorerCosine
    \/ AMatchPapers
    \/ AFilterRelevant
    \/ AMatchPaper
    \/ AScorePaper
    \/ ARankPapers
    \/ ASelect

InitAnalyzer == AnalyzerInit /\ FetchIdle /\ RunIdle

SpecAnalyzer == InitAnalyzer /\ [][AnalyzerNext]_vars


(***************************************************************************)
(* Properties of fetch_all_sources (checked under SpecFetch).  They are    *)
(* stated with definitions of their own, not with the operators above.     *)
(***************************************************************************)
Range(f) == {f[x] : x \in DOMAIN f}

\* two titles agree on their lowercased first 50 characters
SameKey(t1, t2) ==
    /\ Min(Len(t1), 50) = Min(Len(t2), 50)
    /\ \A k \in 1..Min(Len(t1), 50) : LowerChar(t1[k]) = LowerChar(t2[k])

\* position of a source in the registration list
RegIdx(src) == CHOOSE i \in SourceIdx : Sources[i] = src

\* the papers of the adapters that did not raise, in registration order
RECURSIVE SurvivorPapers(_)
SurvivorPapers(i) ==
    IF i = 0 THEN <<>>
    ELSE SurvivorPapers(i - 1) \o
         (IF task[i].kind = "returned" THEN task[i].papers ELSE <<>>)

\* indices of `ps` whose key did not occur at a smaller index
FirstOfKey(ps) ==
    {i \in 1..Len(ps) : \A j \in 1..(i - 1) : ~SameKey(ps[j].title, ps[i].title)}

\* the k-th smallest element of a finite set of naturals
RECURSIVE KthOf(_, _)
KthOf(S, k) ==
    LET m == CHOOSE x \in S : \A y \in S : x <= y
    IN IF k = 1 THEN m ELSE KthOf(S \ {m}, k - 1)

\* C1: whatever subset of the six adapters raises, fetch_all_sources does not
\* raise, every paper returned comes from an adapter that did not raise, and
\* the list returned is the first-of-each-key selection of the concatenated
\* results of the adapters that did not raise: no sibling's paper is lost.
C1_FailureIsolation ==
    /\ fpc # "raised"
    /\ fpc = "done" =>
          LET ok == SurvivorPapers(Len(Sources))
          IN /\ Len(unique) = Cardinality(FirstOfKey(ok))
             /\ \A k \in 1..Len(unique) : unique[k] = ok[KthOf(FirstOfKey(ok), k)]
             /\ \A p \in Range(unique) : task[RegIdx(p.source)].kind = "returned"
             /\ \A p \in Range(ok) :
                   \E q \in Range(unique) : SameKey(p.title, q.title)

\* C1 witness: a run in which two adapters raised and a sibling's paper is
\* in the list returned
C1_Witness ==
    /\ fpc = "done"
    /\ Cardinality({i \in SourceIdx : task[i].kind = "raised"}) >= 2
    /\ \E i \in SourceIdx : task[i].kind = "raised" /\
          \E j \in SourceIdx : j > i /\ task[j].kind = "returned"
             /\ task[j].papers # <<>> /\ task[j].papers[1] \in Range(unique)

\* C2: the list returned holds no two papers whose lowercased 50-character
\* title prefixes are equal, and is no longer than the merged list.
C2_NoDuplicateKeys ==
    fpc = "done" =>
        /\ \A a, b \in 1..Len(unique) :
              a # b => ~SameKey(unique[a].title, unique[b].title)
        /\ Len(unique) <= Len(merged)

\* C2 witness: two merged papers whose titles differ (in case, and after the
\* 50th character) but share the key; one of them was dropped
C2_Witness ==
    /\ fpc = "done"
    /\ Len(unique) < Len(merged)
    /\ \E a, b \in 1..Len(merged) :
          /\ merged[a].title # merged[b].title
          /\ SameKey(merged[a].title, merged[b].title)

\* C3: the list returned is the subsequence of the merged list made of the
\* first paper of every key, in merged order; of two papers with one key
\* from different sources the one of the adapter registered earlier stays.
C3_FirstSeenSubsequence ==
    fpc = "done" =>
        /\ Len(unique) = Cardinality(FirstOfKey(merged))
        /\ \A k \in 1..Len(unique) :
              unique[k] = merged[KthOf(FirstOfKey(merged), k)]
        /\ \A a, b \in 1..Len(merged) :
              (/\ SameKey(merged[a].title, merged[b].title)
               /\ RegIdx(merged[a].source) < RegIdx(merged[b].source))
              => merged[b] \notin Range(unique)

\* C3 witness: two sources returned the same key; exactly the paper of the
\* earlier registered source is in the list returned
C3_Witness ==
    /\ fpc = "done"
    /\ \E a, b \in 1..Len(merged) :
          /\ SameKey(merged[a].title, merged[b].title)
          /\ RegIdx(merged[a].source) < RegIdx(merged[b].source)
          /\ unique = <<merged[a]>>

\* C4: merging starts only after every adapter task has returned or raised,
\* and the merged list holds exactly the returned papers, adapters in
\* registration order and each adapter's papers in response order, in every
\* order of completion of the tasks.
C4_BarrierAndOrder ==
    /\ fpc \in {"merging", "done"} =>
          /\ \A i \in SourceIdx : task[i].kind # "pending"
          /\ \A i \in SourceIdx : results[i] = task[i]
    /\ fpc = "done" =>
          /\ Len(merged) = Fetched(task)
          /\ \A i \in SourceIdx : \A k \in 1..Len(task[i].papers) :
                task[i].papers[k] \in Range(merged)
          /\ \A a, b \in 1..Len(merged) :
                a < b =>
                   \/ RegIdx(merged[a].source) < RegIdx(merged[b].source)
                   \/ /\ merged[a].source = merged[b].source
                      /\ merged[a].n < merged[b].n

\* C4 witness: pubmed returned before arXiv did, and arXiv's paper is still
\* merged before pubmed's
C4_Witness ==
    /\ fpc = "done"
    /\ overtaken
    /\ Len(merged) = 2
    /\ merged[1].source = "arxiv"
    /\ merged[2].source = "pubmed"

(***************************************************************************)
(* Properties of CertifiedPipeline.certify and CertifiedPipeline.run       *)
(* (checked under SpecRun).                                                *)
(***************************************************************************)
\* the certify calls that the collaborator did not answer
FailOpenCalls == {k \in 1..Len(certlog) : certlog[k].how # "answered"}

\* the stage gates whose recorded result is a block
BlockedGates ==
    {summary.certifications[k].stage : k \in
        {j \in 1..Len(summary.certifications) : ~summary.certifications[j].allowed}}


\* C5: whatever the collaborators do (topic loading failing, all sources
\* failing, the embedding service raising, a gate blocking, the renderer
\* raising), run() ends by returning its summary, never by an exception.
C5_NeverPropagates == pc # "raised"

\* C6: for each of the three stage gates, when the gate's result has
\* allowed = false the finished run has recorded an error and has entered no
\* later stage: no matching after a scanner block, no rendering after an
\* analyzer block, no PDF reviews after a publisher block.
C6_BlockedGateHalts ==
    pc = "done" =>
        /\ BlockedGates # {} => summary.errors # <<>>
        /\ "scanner" \in BlockedGates => ~InTrace("MATCH")
        /\ "analyzer" \in BlockedGates => ~InTrace("RENDER")
        /\ "publisher" \in BlockedGates => ~InTrace("PDF")

\* C7: when the collaborator is absent, unreachable at construction or
\* raises during the call, certify returns allowed = true; an error is
\* recorded and a gate halts the run only on a block the collaborator gave.
C7_FailOpen ==
    /\ \A k \in FailOpenCalls : certlog[k].cert.allowed
    /\ collab \in {"absent", "unreachable"} =>
          \A k \in 1..Len(certlog) : certlog[k].how = collab
    /\ summary.errors # <<>> =>
          \E k \in 1..Len(certlog) :
              certlog[k].how = "answered" /\ ~certlog[k].cert.allowed
    /\ (pc = "done" /\ trace[Len(trace)] = "GATE_1") =>
          certlog[Len(certlog)].how = "answered"
    /\ (pc = "done" /\ trace[Len(trace)] = "SCORE" /\ ~dry_run) =>
          certlog[Len(certlog)].how = "answered"

\* C7 witness: the collaborator raised at the scanner gate and at the
\* analyzer gate, and the run went on to rendering with no error recorded
C7_Witness ==
    /\ pc = "render"
    /\ Len(certlog) = 2
    /\ certlog[1].how = "error"
    /\ certlog[2].how = "error"
    /\ summary.errors = <<>>

\* C8: with the collaborator absent or raising on every call, a run that is
\* no dry run and has shortlisted a paper passes through the rendering of
\* the blog posts and of the PDF reviews and returns its summary.
C8_SurvivesWithoutCollaborator ==
    (/\ ~dry_run
     /\ ranked # <<>>
     /\ FailOpenCalls = 1..Len(certlog)
     /\ pc \in {"done", "raised"})
    => /\ pc = "done"
       /\ InTrace("RENDER")
       /\ generate_pdfs => InTrace("PDF")

\* C9 as stated: absence and error give the same passing default,
\* allowed = true, kappa_gate = 1.0, decision = "EXECUTE".
C9_SameDefault ==
    \A k \in FailOpenCalls :
        /\ certlog[k].cert.allowed
        /\ certlog[k].cert.kappa_gate = 100
        /\ certlog[k].cert.decision = "EXECUTE"

\* C9 amended: absence and error both give allowed = true; without a client
\* the result has kappa_gate = 1.0 and decision = "EXECUTE", after an
\* exception of the collaborator it has kappa_gate = 0.0 and decision =
\* "ERROR".  AnalystAgent.certify gives the same three fields.
C9_Defaults ==
    /\ \A k \in FailOpenCalls :
          LET c == certlog[k].cert
          IN /\ c.allowed
             /\ c = Certify(swarmit, ReplyRaise, c.stage)
             /\ certlog[k].how \in {"absent", "unreachable"} =>
                   c.kappa_gate = 100 /\ c.decision = "EXECUTE"
             /\ certlog[k].how = "error" =>
                   c.kappa_gate = 0 /\ c.decision = "ERROR"
             /\ LET a == AnalystCertify(swarmit, ReplyRaise, c.stage)
                IN /\ a.allowed = c.allowed
                   /\ a.kappa_gate = c.kappa_gate
                   /\ a.decision = c.decision

\* C9 witness: a call the collaborator failed, answered with kappa_gate 0.0
\* and "ERROR", in a run that went on past the gate
C9_Witness ==
    /\ pc = "match"
    /\ certlog[1].how = "error"
    /\ certlog[1].cert.allowed
    /\ certlog[1].cert.kappa_gate = 0
    /\ certlog[1].cert.decision = "ERROR"

\* the order of the stages as the specification gives it
SpecOrder == <<"LOAD_TOPICS", "FETCH", "GATE_1", "MATCH", "SCORE", "GATE_2",
               "RENDER", "GATE_3">>

\* the order of the stages in run(): the certify call of the analyzer gate
\* comes before the scoring
CodeOrder == <<"LOAD_TOPICS", "FETCH", "GATE_1", "MATCH", "GATE_2", "SCORE",
               "RENDER", "GATE_3", "PDF">>

Rank(order, stage) ==
    IF \E i \in 1..Len(order) : order[i] = stage
    THEN CHOOSE i \in 1..Len(order) : order[i] = stage
    ELSE Len(order) + 1

\* C10 as stated: the stages occur in the order LOAD_TOPICS, FETCH, GATE_1,
\* MATCH, SCORE, GATE_2, RENDER, GATE_3, each at most once; the certify call
\* of GATE_2 comes after the scoring.
C10_SpecOrder ==
    \A a, b \in 1..Len(trace) :
        a < b => Rank(SpecOrder, trace[a]) < Rank(SpecOrder, trace[b])

\* C10 amended: the stages occur in the order LOAD_TOPICS, FETCH, GATE_1,
\* MATCH, GATE_2, SCORE, RENDER, GATE_3, each at most once, none skipped and
\* never out of order: the certify call of GATE_2 is issued after the
\* matching and before the scoring, and its decision is taken after the
\* scoring.
C10_CodeOrder ==
    /\ trace = Prefix(CodeOrder, Len(trace))
    /\ \A a, b \in 1..Len(trace) :
          a < b => Rank(CodeOrder, trace[a]) < Rank(CodeOrder, trace[b])
    /\ InTrace("SCORE") =>
          /\ Len(certlog) >= 2
          /\ certlog[2].cert.stage = "analyzer"
    /\ (pc = "score") => ~InTrace("SCORE") /\ cert.stage = "analyzer"

\* C10 witness: a run that entered all eight stages
C10_Witness ==
    /\ pc = "pdf"
    /\ trace = Prefix(CodeOrder, 8)

\* C11: whenever a stage of run() yields no qualifying paper (none fetched,
\* none at or above the topic-match threshold, none at or above the
\* reference threshold) the run returns right after that stage with an empty
\* errors list: no later stage is entered, no gate and no renderer invoked.
C11_ZeroIsTerminal ==
    /\ (InTrace("FETCH") /\ papers = <<>>) =>
          /\ pc = "done"
          /\ trace[Len(trace)] = "FETCH"
          /\ summary.errors = <<>>
    /\ (InTrace("MATCH") /\ pc # "raised" /\ relevant = <<>>) =>
          /\ pc = "done"
          /\ trace[Len(trace)] = "MATCH"
          /\ summary.errors = <<>>
    /\ (InTrace("SCORE") /\ rsct_scores = <<>>) =>
          /\ pc = "done"
          /\ trace[Len(trace)] = "SCORE"
          /\ summary.errors = <<>>

\* C16: when the embedding service raises during load_topics or match_paper
\* the matcher recovers by itself: the call does not raise and the run goes
\* on, the paper being scored by keyword matching.
C16_EmbeddingFailureRecovered == exc # "EmbeddingError"

\* C15: whatever the six providers respond, fetch_all_sources returns no
\* Paper with an empty abstract, so none is handed to match_papers and none
\* to rank_papers.
C15_NoEmptyAbstract ==
    /\ \A k \in 1..Len(papers) : papers[k].abstract # AbsEmpty
    /\ \A k \in 1..Len(relevant) : relevant[k][1].abstract # AbsEmpty


(***************************************************************************)
(* Properties of the analyzer (checked under SpecAnalyzer).                *)
(***************************************************************************)
\* the score score_paper gives the k-th paper of the list handed to
\* rank_papers
ScoreOfInput(k) ==
    LET pm == acase.relevant[k]
    IN ScorePaper(acase.scorer, k \in acase.up, PaperId(pm[1]), pm[1].title,
                  pm[1].abstract, pm[2].similarity_score)

\* the positions of the input whose reference similarity reaches the
\* threshold
Qualifying ==
    {k \in 1..Len(acase.relevant) :
        ScoreOfInput(k).rsct_similarity >= Ticks(acase.min_rsct_score)}

\* the position in the input of the i-th score returned
InputPos(i) == aranked[i].paper_id[2]

\* C13: for every list and threshold, rank_papers returns exactly the scores
\* of the papers whose reference similarity is at least min_rsct_score, each
\* once, ordered by combined_score non-increasing, and papers of equal
\* combined_score keep the relative order they had in the input.
C13_RankPapers ==
    apc \in {"ranked", "selected"} =>
        /\ Len(aranked) = Cardinality(Qualifying)
        /\ {InputPos(i) : i \in 1..Len(aranked)} = Qualifying
        /\ \A i \in 1..Len(aranked) : aranked[i] = ScoreOfInput(InputPos(i))
        /\ \A i, j \in 1..Len(aranked) :
              i < j => /\ aranked[i].combined_score >= aranked[j].combined_score
                       /\ (aranked[i].combined_score = aranked[j].combined_score
                              => InputPos(i) < InputPos(j))

\* rank_papers has dropped a paper and returned two papers of equal
\* combined_score
C13_Witness ==
    /\ apc = "ranked"
    /\ Len(aranked) < Len(acase.relevant)
    /\ \E i, j \in 1..Len(aranked) :
          i < j /\ aranked[i].combined_score = aranked[j].combined_score

\* C20: a MatchResult of the keyword path has matched_topics empty, whatever
\* topics the matcher has loaded.
C20_KeywordPathNoTopics ==
    (apc \in {"matched", "scored"} /\ ~MatchEmbeds(acase.matcher)) =>
        amatch.result.matched_topics = <<>>

\* a matcher in keyword mode with a topic loaded has matched keywords of a
\* paper
C20_Witness ==
    /\ apc = "matched"
    /\ acase.matcher.embed_mode = "keyword"
    /\ acase.matcher.topics # <<>>
    /\ amatch.result.top_keywords # <<>>
    /\ amatch.result.matched_topics = <<>>

\* C14: the similarity_score of match_paper and the rsct_similarity,
\* topic_similarity and combined_score of score_paper lie in [0,1], also when
\* the cosine similarity of the embeddings is negative.
C14_ScoresInUnitInterval ==
    /\ apc \in {"matched", "scored"} =>
          /\ amatch.result.similarity_score >= 0
          /\ amatch.result.similarity_score <= 100
    /\ apc = "scored" =>
          /\ ascore.result.rsct_similarity >= 0
          /\ ascore.result.rsct_similarity <= Ticks(100)
          /\ ascore.result.topic_similarity >= 0
          /\ ascore.result.topic_similarity <= 100
          /\ ascore.result.combined_score >= 0
          /\ ascore.result.combined_score <= 10 * Ticks(100)

\* the papers of `relevant` that rank_papers returned a score for, by their
\* position in the fetch
ScoredPapers == {InputPos(i) : i \in 1..Len(aranked)}

Fallback == ~(acase.scorer.wp_emb /\ acase.embedded)

\* the concepts of the vocabulary that occur in the text
ConceptsInText == {k \in 1..Len(RSCT_CONCEPTS) : InText(RSCT_CONCEPTS[k], acase.abstract)}

\* C17 as stated: on the fallback the reference similarity equals
\* keyword_score exactly.
C17_FallbackExact ==
    (apc = "scored" /\ Fallback) => ascore.rsct64 = ascore.keyword64

\* C17 amended: keyword_score is the number of vocabulary concepts in the
\* text over 16, the reference similarity is 0.7*embed_score +
\* 0.3*keyword_score and combined_score is 0.6*reference similarity +
\* 0.4*topic_similarity, embed_score being the cosine similarity only when
\* the whitepaper and the paper are both embedded; on the fallback the
\* reference similarity is 0.7*keyword_score + 0.3*keyword_score, which in
\* binary64 is keyword_score or the double just below it.
C17_ScoreFormulas ==
    apc = "scored" =>
        LET r == ascore.result
            keyword_score == Cardinality(ConceptsInText) * 1000
            embed_score == IF Fallback THEN keyword_score
                           ELSE Ticks(RefCos(acase.abstract))
        IN /\ Len(r.key_overlaps) = Cardinality(ConceptsInText)
           /\ 10 * r.rsct_similarity = 7 * embed_score + 3 * keyword_score
           /\ r.combined_score = 6 * r.rsct_similarity + 4 * Ticks(acase.topic_similarity)
           /\ Fallback =>
                 /\ r.rsct_similarity = keyword_score
                 /\ ascore.keyword64 = FromRatio(Cardinality(ConceptsInText), 16)
                 /\ FLe(ascore.rsct64, ascore.keyword64)
                 /\ FLe(ascore.keyword64, FAdd(ascore.rsct64, FUlp(ascore.rsct64)))

\* the whitepaper is embedded, embedding the paper fails, and the reference
\* similarity computed is not keyword_score
C17_Witness ==
    /\ apc = "scored"
    /\ acase.scorer.wp_emb
    /\ ~acase.embedded
    /\ ascore.keyword64 = FromRatio(3, 16)
    /\ ascore.rsct64 # ascore.keyword64

\* the entries of the keyword table whose keyword occurs in the text
KeywordsInText == {k \in 1..Len(KeywordTable) : InText(KeywordTable[k][1], acase.abstract)}

\* the exact sum of the weights of these entries, in percent
WeightSum == Sum(KeywordTable, LAMBDA e : IF InText(e[1], acase.abstract) THEN e[2] ELSE 0)

\* the position in the keyword table of a keyword
TablePos(kw) == CHOOSE k \in 1..Len(KeywordTable) : KeywordTable[k][1] = kw

\* C18 as stated: on the keyword path similarity_score is the sum of the
\* weights of the keywords that occur, and the text with representation,
\* solver and compatibility only scores 0.45.
C18_SumOfWeights ==
    (apc \in {"matched", "scored"} /\ ~MatchEmbeds(acase.matcher)) =>
        /\ amatch.result.similarity_score = WeightSum
        /\ acase.abstract = AbsThree => amatch.score64 = FromRatio(45, 100)

\* C18 amended: on the keyword path similarity_score is min(s, 1.0), s being
\* the weights of the table keywords that occur in the text added in binary64
\* in table order, and top_keywords lists exactly these keywords in table
\* order; the text with representation, solver and compatibility only scores
\* the double just below 0.45, a text with all ten keywords scores 1.0.
C18_KeywordScore ==
    (apc \in {"matched", "scored"} /\ ~MatchEmbeds(acase.matcher)) =>
        LET r == amatch.result
        IN /\ r.similarity_score = Min(WeightSum, 100)
           /\ Len(r.top_keywords) = Cardinality(KeywordsInText)
           /\ {TablePos(r.top_keywords[i]) : i \in 1..Len(r.top_keywords)} = KeywordsInText
           /\ \A i, j \in 1..Len(r.top_keywords) :
                 i < j => TablePos(r.top_keywords[i]) < TablePos(r.top_keywords[j])
           /\ amatch.score64 = (IF FLe(amatch.sum64, FOne) THEN amatch.sum64 ELSE FOne)
           /\ (WeightSum = 0) = (amatch.sum64 = FZero)
           /\ acase.abstract = AbsThree =>
                 /\ r.top_keywords = <<"representation", "solver", "compatibility">>
                 /\ amatch.score64 # FromRatio(45, 100)
                 /\ FAdd(amatch.score64, FUlp(amatch.score64)) = FromRatio(45, 100)
           /\ acase.abstract = AbsRich => amatch.score64 = FOne

\* the keyword matcher has scored the text with representation, solver and
\* compatibility only
C18_Witness ==
    /\ apc = "matched"
    /\ acase.matcher.embed_mode = "keyword"
    /\ acase.abstract = AbsThree
    /\ amatch.result.top_keywords = <<"representation", "solver", "compatibility">>
    /\ amatch.result.similarity_score = 45
    /\ amatch.score64 # FromRatio(45, 100)

\* C19 as stated: the ten weights sum to exactly 1.0, so a text with all ten
\* keywords scores their plain sum, 1.0, without the cap.
C19_WeightsSumToOne ==
    (apc \in {"matched", "scored"} /\ ~MatchEmbeds(acase.matcher)
        /\ acase.abstract = AbsRich) =>
        /\ WeightSum = 100
        /\ amatch.sum64 = FOne

\* C19 amended: the ten weights sum to 1.01 (in binary64, added in table
\* order, to the double just below 1.01), so a text with all ten keywords
\* scores 1.0 through the cap min(score, 1.0) only; no keyword score exceeds
\* 1.0.
C19_CappedAtOne ==
    (apc \in {"matched", "scored"} /\ ~MatchEmbeds(acase.matcher)) =>
        /\ FLe(amatch.score64, FOne)
        /\ amatch.result.similarity_score <= 100
        /\ FLe(amatch.sum64, FOne) = (WeightSum <= 100)
        /\ acase.abstract = AbsRich =>
              /\ WeightSum = 101
              /\ ~FLe(amatch.sum64, FOne)
              /\ FAdd(amatch.sum64, FUlp(amatch.sum64)) = FromRatio(101, 100)
              /\ amatch.score64 = FOne
              /\ amatch.result.similarity_score = 100

\* the keyword matcher has scored a text with all ten keywords: the sum is
\* above 1.0 and the score is 1.0
C19_Witness ==
    /\ apc = "matched"
    /\ acase.matcher.embed_mode = "keyword"
    /\ Len(amatch.result.top_keywords) = Len(KeywordTable)
    /\ amatch.sum64 # FOne
    /\ amatch.score64 = FOne

(***************************************************************************)
(* The pairs passed on by the topic filter.                                *)
(***************************************************************************)
\* C26: every (paper, match) pair that passed the topic threshold and goes on
\* to reference scoring pairs a paper with the MatchResult computed from that
\* same paper: match.paper_id equals paper.id
C26_PairsSamePaper ==
    \A k \in 1..Len(relevant) : relevant[k][2].paper_id = PaperId(relevant[k][1])

\* the pairs are passed on to the scoring, and one of them joins a paper with
\* the result of another paper
C26_Mispaired ==
    /\ InTrace("SCORE")
    /\ \E k \in 1..Len(relevant) : relevant[k][2].paper_id # PaperId(relevant[k][1])

(***************************************************************************)
(* The summary returned by run().                                          *)
(***************************************************************************)
\* the stages of the certifications of a summary, in order
CertStages(sm) == [k \in 1..Len(sm.certifications) |-> sm.certifications[k].stage]

GateStages == <<"scanner", "analyzer", "publisher">>

\* C29: in every summary run() returns, wherever the run stopped,
\* papers_rsct_ranked <= papers_matched <= papers_fetched, posts_generated <=
\* min(10, papers_rsct_ranked), pdfs_generated <= 5, top_papers has at most 5
\* entries and certifications holds at most 3 entries whose stages are a
\* prefix of (scanner, analyzer, publisher)
C29_SummaryBounds ==
    pc = "done" =>
        /\ summary.papers_rsct_ranked <= summary.papers_matched
        /\ summary.papers_matched <= summary.papers_fetched
        /\ summary.posts_generated <= Min(TopPosts, summary.papers_rsct_ranked)
        /\ summary.pdfs_generated <= TopPdf
        /\ Len(summary.top_papers) <= TopShown
        /\ Len(summary.certifications) <= Len(GateStages)
        /\ CertStages(summary) = Prefix(GateStages, Len(summary.certifications))

\* a summary is returned after all three gates, with fewer papers matched
\* than fetched
C29_Witness ==
    /\ pc = "done"
    /\ Len(summary.certifications) = 3
    /\ summary.papers_matched < summary.papers_fetched
    /\ summary.papers_matched > 0

(***************************************************************************)
(* The dry run.                                                            *)
(***************************************************************************)
\* the counts and the top papers run() writes into the summary up to the
\* scoring stage (run.py:125, 150, 177, 194-203), from the papers fetched;
\* `up` is the set of positions whose embedding call succeeds in rank_papers
SummaryOfAnalysis(up) ==
    LET ms == MatchPapers(matcher, [k \in 1..Len(papers) |-> PaperDict(papers[k])])
        rel == Relevant(papers, ms, config.min_score)
        scores == RankPapers(scorer, up, RsctPaperDicts(rel), MinRsctScore)
    IN [papers_fetched |-> Len(papers), papers_matched |-> Len(rel),
        papers_rsct_ranked |-> Len(scores),
        top_papers |-> TopPapers(RelevantWithRsct(rel, scores))]

\* the same four fields of the summary
AnalysisOf(sm) ==
    [papers_fetched |-> sm.papers_fetched, papers_matched |-> sm.papers_matched,
     papers_rsct_ranked |-> sm.papers_rsct_ranked, top_papers |-> sm.top_papers]

\* the stages of the certify calls made so far
CalledStages == {certlog[k].cert.stage : k \in 1..Len(certlog)}

KeywordResult(p) ==
    [paper_id |-> PaperId(p), paper_title |-> p.title,
     similarity_score |-> KeywordMatch(p.abstract).score,
     matched_topics |-> <<>>, top_keywords |-> KeywordMatch(p.abstract).matched]

\* C24: when load_topics loaded no topic, every later match_paper call takes
\* the keyword path, whatever embed_mode was resolved at construction, and
\* the embedding service is never called (so it cannot fail the run)
C24_NoTopicsKeywordPath ==
    (matcher.topics = <<>> /\ InTrace("MATCH")) =>
        /\ ~MatchEmbeds(matcher)
        /\ exc # "EmbeddingError"
        /\ Len(matches) = Len(papers)
        /\ \A k \in 1..Len(matches) :
              \E j \in 1..Len(papers) : matches[k] = KeywordResult(papers[j])

\* papers were matched by a matcher in openai mode with no topic loaded, and
\* a keyword was found
C24_Witness ==
    /\ matcher.topics = <<>>
    /\ matcher.embed_mode = "openai"
    /\ InTrace("MATCH")
    /\ \E k \in 1..Len(matches) : matches[k].top_keywords # <<>>

(***************************************************************************)
(* The configuration.                                                      *)
(***************************************************************************)
\* the topics directory does not exist, or the threshold is outside [0, 1]
InvalidConfig == config.topics_dir = "missing" \/ config.min_score \notin 0..100

\* C25: when the configuration is invalid (the topics directory does not
\* exist, or a threshold is outside [0,1]) the pipeline fails at startup with
\* an error, before any source adapter issues a request: no fetch is ever
\* started under an invalid configuration
C25_InvalidConfigFailsAtStartup ==
    InvalidConfig =>
        /\ ~InTrace("FETCH")
        /\ pc \in {"load_topics", "raised"}

\* papers were fetched, and matched, under an invalid configuration
C25_FetchedUnderInvalidConfig ==
    /\ InvalidConfig
    /\ InTrace("FETCH")
    /\ papers # <<>>
    /\ InTrace("MATCH")

(***************************************************************************)
(* The per-paper certifications of the rendering stages.                   *)
(***************************************************************************)
\* the replies `r` with the allowed flag negated at the positions in `at`
FlipAllowed(r, at) ==
    [i \in DOMAIN r |-> IF i \in at THEN [r[i] EXCEPT !.allowed = ~@] ELSE r[i]]

\* what the blog loop (run.py:219-245) does with the replies `r`, without the
\* R/S/N/kappa/decision fields it copies: whether it raised, how many certify
\* calls it made, and the papers of paper_data in order
BlogOutcome(r) ==
    LET built == BuildPaperData(collab, swarmit, r, Prefix(ranked, TopPosts))
    IN [raised |-> built.raised, calls |-> Len(built.log),
        papers |-> [k \in 1..Len(built.data) |->
                       [id |-> built.data[k].id,
                        similarity_score |-> built.data[k].similarity_score,
                        matched_topics |-> built.data[k].matched_topics]]]

\* the same for the PDF loop (run.py:257-276)
PdfOutcome(r) ==
    LET pdf_papers == BuildPdfPapers(collab, swarmit, r, Prefix(ranked, TopPdf))
        batch == GenerateBatch(pdf_papers, TopPdf)
    IN [raised |-> batch.raised, reviews |-> batch.reviews,
        papers |-> [k \in 1..Len(pdf_papers) |->
                       [id |-> pdf_papers[k].id,
                        rsct_similarity |-> pdf_papers[k].rsct_similarity,
                        similarity_score |-> pdf_papers[k].similarity_score]]]

\* a step of the blog stage or of the PDF stage: it leaves the errors of the
\* summary, and the blog stage its certifications, as they are, and what the
\* two loops do is the same for replies that differ in their allowed flags
RenderStep ==
    pc \in {"render", "pdf"} =>
        /\ summary'.errors = summary.errors
        /\ (pc = "render" => summary'.certifications = summary.certifications)
        /\ LET posts == 1..Min(TopPosts, Len(ranked))
               pdfs == 1..Min(TopPdf, Len(ranked))
           IN /\ \A r \in [posts -> CertReplies], at \in SUBSET posts :
                    BlogOutcome(FlipAllowed(r, at)) = BlogOutcome(r)
              /\ \A r \in [pdfs -> CertReplies], at \in SUBSET pdfs :
                    PdfOutcome(FlipAllowed(r, at)) = PdfOutcome(r)

\* C27: the per-paper certification results obtained during rendering never
\* influence control flow: when the run renders, for any two assignments of
\* per-paper replies that differ only in their allowed flags, the papers
\* handed to the renderers and their order are the same, and the stage leaves
\* the errors and the gate certifications of the summary as they are
C27_AllowedFlagIgnored == [][RenderStep]_vars

\* the render stage was entered with the collaborator answering, and a
\* per-paper certification came back with allowed = FALSE
C27_Witness ==
    /\ InTrace("RENDER")
    /\ \E k \in 1..Len(certlog) :
          /\ certlog[k].cert.stage = "paper"
          /\ certlog[k].how = "answered"
          /\ ~certlog[k].cert.allowed

(***************************************************************************)
(* The two runners.                                                        *)
(***************************************************************************)
\* the ids of the papers of a ranked list, in order
IdsOf(rk) == [k \in 1..Len(rk) |-> PaperId(rk[k][1])]

\* the papers the blog loop of CertifiedPipeline.run went through
\* (run.py:220), none if the run ended before it
RunWriterPapers == IF InTrace("RENDER") THEN Prefix(ranked, TopPosts) ELSE <<>>

C30_AdkRendersBlocked ==
    /\ adk # <<>>
    /\ ~dry_run
    /\ pc = "done"
    /\ ~InTrace("RENDER")
    /\ \E k \in 1..Len(summary.certifications) : ~summary.certifications[k].allowed
    /\ adk.writer_papers # <<>>

(***************************************************************************)
(* match_paper on the embedding path.                                      *)
(***************************************************************************)
\* the similarity of the paper of the case and the k-th topic of its matcher
SimOfTopic(k) == Cosine(acase.matcher.topics[k].id, acase.abstract)

\* the similarity of the topic with this title
SimOfTitle(t) ==
    SimOfTopic(CHOOSE k \in 1..Len(acase.matcher.topics) :
                  acase.matcher.topics[k].title = t)

\* C21: in embedding mode with at least one cached topic embedding,
\* match_paper returns similarity_score equal to the maximum cosine similarity
\* over all topics; matched_topics has length at most 3, holds only titles of
\* topics whose similarity is at least the threshold, is ordered by
\* similarity non-increasing, and omits a topic at or above the threshold
\* only if three topics with similarity at least as high are listed
C21_BestAndTopThree ==
    (acase # <<>> /\ acase.kind = "paper" /\ apc # "paper"
        /\ MatchEmbeds(acase.matcher) /\ acase.matcher.topics # <<>>) =>
        LET topics == acase.matcher.topics
            r == amatch.result
            listed == r.matched_topics
        IN /\ \E k \in 1..Len(topics) : r.similarity_score = SimOfTopic(k)
           /\ \A k \in 1..Len(topics) : r.similarity_score >= SimOfTopic(k)
           /\ Len(listed) <= 3
           /\ \A i \in 1..Len(listed) :
                 \E k \in 1..Len(topics) :
                    /\ topics[k].title = listed[i]
                    /\ SimOfTopic(k) >= acase.matcher.threshold
           /\ \A i, j \in 1..Len(listed) :
                 i < j => (listed[i] # listed[j] /\ SimOfTitle(listed[i]) >= SimOfTitle(listed[j]))
           /\ \A k \in 1..Len(topics) :
                 (SimOfTopic(k) >= acase.matcher.threshold
                     /\ topics[k].title \notin Range(listed)) =>
                    /\ Len(listed) = 3
                    /\ \A i \in 1..3 : SimOfTitle(listed[i]) >= SimOfTopic(k)

\* a paper matched against four topics, all at or above the threshold: three
\* are listed, two of them tie, and the best is not the first of the corpus
C21_Witness ==
    /\ acase # <<>> /\ acase.kind = "paper" /\ apc # "paper"
    /\ MatchEmbeds(acase.matcher)
    /\ Len(acase.matcher.topics) = 4
    /\ \A k \in 1..4 : SimOfTopic(k) >= acase.matcher.threshold
    /\ Len(amatch.result.matched_topics) = 3
    /\ SimOfTitle(amatch.result.matched_topics[2]) = SimOfTitle(amatch.result.matched_topics[3])
    /\ amatch.result.similarity_score > SimOfTopic(1)

(***************************************************************************)
(* match_papers and filter_relevant.                                       *)
(***************************************************************************)
\* the result match_paper gives for the k-th paper of the case, with its id
OwnResult(k) ==
    [MatchPaper(acase.matcher, acase.papers[k].title, acase.papers[k].abstract)
        EXCEPT !.paper_id = acase.papers[k].id]

\* match_papers: one result per input paper, each with the id of the paper
\* it was computed from, ordered by similarity_score non-increasing
MatchPapersHolds ==
    LET res == amatch.results
    IN /\ Len(res) = Len(acase.papers)
       /\ \A k \in 1..Len(acase.papers) :
             Cardinality({i \in 1..Len(res) : res[i] = OwnResult(k)}) = 1
       /\ \A i, j \in 1..Len(res) :
             i < j => res[i].similarity_score >= res[j].similarity_score

\* C22: match_papers returns exactly one MatchResult per input paper, each
\* carrying the id of the paper it was computed from, ordered by
\* similarity_score non-increasing; filter_relevant returns exactly the input
\* papers whose own similarity_score is at least min_score
C22_MatchAndFilter ==
    (acase # <<>> /\ acase.kind = "papers") =>
        /\ apc # "papers" => MatchPapersHolds
        /\ apc = "filtered" =>
              [k \in 1..Len(arelevant) |-> arelevant[k][1]] =
                  Filter(acase.papers,
                         LAMBDA p : \E k \in 1..Len(acase.papers) :
                            /\ p = acase.papers[k]
                            /\ OwnResult(k).similarity_score >= acase.min_score)

\* filter_relevant returned a paper whose own score is below min_score
C22_ReturnsIrrelevant ==
    /\ acase # <<>> /\ acase.kind = "papers" /\ apc = "filtered"
    /\ \E i \in 1..Len(arelevant), k \in 1..Len(acase.papers) :
          /\ arelevant[i][1] = acase.papers[k]
          /\ OwnResult(k).similarity_score < acase.min_score

(***************************************************************************)
(* The cosine similarity of a vector of norm zero.                         *)
(***************************************************************************)
\* C23: in the matcher and in the reference scorer, the cosine similarity of
\* two vectors of which at least one has zero norm is 0.0, and no division by
\* zero occurs
C23_ZeroNormIsZero ==
    (acase # <<>> /\ acase.kind = "cosine"
        /\ (Norm(acase.a) = 0 \/ Norm(acase.b) = 0)) =>
        /\ apc # "cosine" => acos.matcher = Number(0)
        /\ apc = "cosine_done" => acos.scorer = Number(0)

\* the matcher's cosine similarity of the zero vector and another is nan,
\* where the scorer's is 0.0
C23_MatcherNaN ==
    /\ acase # <<>> /\ acase.kind = "cosine" /\ apc = "cosine_done"
    /\ Norm(acase.a) = 0
    /\ Norm(acase.b) # 0
    /\ acos.matcher = NaN
    /\ acos.scorer = Number(0)


====
